---- MODULE Spec2Model ----
(***************************************************************************)
(* Ledger posting engine of the accounting server: the transactions        *)
(* routes (post / amend / void), the account registry routes, the trial    *)
(* balance report and the shared SQLite connection they all run on.        *)
(*                                                                         *)
(* Amounts are fixed-point numbers of cents: 1 stands for 0.01.            *)
(* Every `await db.run/get/all` of a handler is one step of the model, so  *)
(* handlers of different requests interleave statement by statement on     *)
(* the single shared connection.                                           *)
(***************************************************************************)
EXTENDS Integers, Sequences, FiniteSets, TLC

\* Number of requests a behaviour may start.
MaxRequests == 3

\* Number of requests a behaviour with interleaved handlers may start.
MaxConcurrentRequests == 2

\* Math.abs(totalDebits - totalCredits) > 0.01, in cents.
Tolerance == 1

\* padStart(6, '0')
PadWidth == 6

\* Request slots: the handlers that can be in flight together.
Slots == {1, 2}

Dates == {1, 2}

AccountTypes == {"asset", "liability", "equity", "income", "expense"}

VARIABLES
  db,        \* the tables of the SQLite file as seen through the connection
  inTxn,     \* the connection has an open BEGIN TRANSACTION
  snapshot,  \* the tables as they were when that transaction began
  req,       \* per slot: the handler in flight, its locals and its position
  budget,    \* requests the callers will still send
  lastPost,  \* bookkeeping: the post that completed last, if nothing followed it
  issued     \* bookkeeping: per prefix, the sequence number handed out last

vars == <<db, inTxn, snapshot, req, budget, lastPost, issued>>

----------------------------------------------------------------------------
(* Request bodies *)

Line(a, d, c) == [account_id |-> a, debit_amount |-> d, credit_amount |-> c]

\* Entry arrays submitted by callers.  Accounts 1 and 2 are in the default
\* chart; account 3 exists only once it has been created.
EntryLists ==
  { << Line(1, 50000, 0), Line(2, 0, 50000) >>,    \* 500.00 against 500.00
    << Line(2, 0, 50000), Line(1, 25000, 0), Line(1, 25001, 0) >>,
                                                    \* three lines, off by 0.01
    << Line(1, 50002, 0), Line(2, 0, 50000) >>,    \* off by 0.02
    << Line(1, 50000, 0), Line(2, 0, 49900) >>,    \* 500.00 against 499.00
    << Line(1, 50000, 0), Line(3, 0, 50000) >>,    \* account 3
    << Line(1, 50000, 0) >>,                       \* a single entry
    << Line(1, -100, 0), Line(2, 0, -100) >> }     \* negative amounts

\* The bodies used when handlers interleave.
ConcurrentEntryLists ==
  { << Line(1, 50000, 0), Line(2, 0, 50000) >>,
    << Line(2, 0, 50001), Line(1, 50000, 0) >> }

ConcurrentDates == {1}

\* Account bodies submitted by callers: a new code, a code the default chart
\* already holds, and a type outside the enum.
NewAccounts ==
  { [code |-> "2110", type |-> "liability"],
    [code |-> "1110", type |-> "asset"],
    [code |-> "2120", type |-> "other"] }

\* A request body without a status: the handlers read req.body, not the value
\* the validator returns, so the schema's default is not applied and the
\* statement binds NULL.
Null == "null"

\* Voucher bodies submitted by callers.
VoucherBodies ==
  { [type |-> "payment", amount |-> 100, status |-> "draft"],
    [type |-> "receipt", amount |-> 100, status |-> Null],
    [type |-> "journal", amount |-> 200, status |-> "approved"],
    [type |-> "payment", amount |-> 200, status |-> "posted"],
    [type |-> "cheque",  amount |-> 100, status |-> "draft"] }

\* The bodies used when voucher handlers interleave.
ConcurrentVoucherBodies ==
  { [type |-> "payment", amount |-> 200, status |-> "draft"] }

\* Voucher ids a caller may name.
VoucherIds == {1, 2}

Movement(item, type, q) ==
  [item_id |-> item, movement_type |-> type, quantity |-> q]

\* Stock movement bodies submitted by callers.  Item 1 exists; item 2 does not.
Movements ==
  { Movement(1, "in", 5),
    Movement(1, "out", 4),
    Movement(1, "out", 10),
    Movement(1, "out", 20),
    Movement(1, "adjustment", 7),
    Movement(1, "adjustment", -3),
    Movement(1, "in", -20),
    Movement(2, "out", 1),
    Movement(1, "transfer", 1) }

\* The bodies used when movement handlers interleave.
ConcurrentMovements ==
  { Movement(1, "in", 5),
    Movement(1, "out", 4),
    Movement(1, "out", 10),
    Movement(1, "adjustment", 7) }

\* Account ids a caller may name.
AccountIds == {1, 2, 3}

\* Transaction ids a caller may name.
TxnIds == 1..MaxRequests

----------------------------------------------------------------------------
(* Pure helpers *)

RECURSIVE SumDebits(_)
SumDebits(es) ==
  IF es = <<>> THEN 0 ELSE Head(es).debit_amount + SumDebits(Tail(es))

RECURSIVE SumCredits(_)
SumCredits(es) ==
  IF es = <<>> THEN 0 ELSE Head(es).credit_amount + SumCredits(Tail(es))

Abs(x) == IF x < 0 THEN -x ELSE x

EntrySchemaValid(e) == e.debit_amount >= 0 /\ e.credit_amount >= 0

\* The balance rule with the comparison one cent too generous.
WithinToleranceLoose(es) ==
  ~ (Abs(SumDebits(es) - SumCredits(es)) > Tolerance + 1)

WithinTolerance(es) == ~ (Abs(SumDebits(es) - SumCredits(es)) > Tolerance)

\* The schema without the custom rule that compares debits and credits.
TransactionSchemaValidNoBalanceRule(es) ==
  /\ \A k \in 1..Len(es) : EntrySchemaValid(es[k])
  /\ Len(es) >= 2

TransactionSchemaValid(es) ==
  /\ \A k \in 1..Len(es) : EntrySchemaValid(es[k])
  /\ Len(es) >= 2
  /\ WithinTolerance(es)

RECURSIVE ToDigits(_)
ToDigits(n) == IF n < 10 THEN <<n>> ELSE Append(ToDigits(n \div 10), n % 10)

RECURSIVE PadStart(_, _)
PadStart(ds, w) == IF Len(ds) >= w THEN ds ELSE PadStart(<<0>> \o ds, w)

RECURSIVE ParseInt(_)
ParseInt(ds) ==
  IF ds = <<>> THEN 0
  ELSE ParseInt(SubSeq(ds, 1, Len(ds) - 1)) * 10 + ds[Len(ds)]

\* `TXN${nextNumber.toString().padStart(6, '0')}`
FormatTransactionNumber(n) ==
  [prefix |-> "TXN", digits |-> PadStart(ToDigits(n), PadWidth)]

\* SELECT transaction_number FROM transactions ORDER BY id DESC LIMIT 1
LastTransaction(d) ==
  IF d.transactions = {} THEN {}
  ELSE {t \in d.transactions : \A u \in d.transactions : u.id <= t.id}

\* match(/TXN(\d+)/) and parseInt(match[1]) + 1
NextNumber(d) ==
  IF LastTransaction(d) = {} THEN 1
  ELSE LET last == CHOOSE t \in LastTransaction(d) : TRUE
       IN  IF last.transaction_number.prefix = "TXN"
              /\ last.transaction_number.digits # <<>>
           THEN ParseInt(last.transaction_number.digits) + 1
           ELSE 1

RECURSIVE SelectSeq2(_, _)
SelectSeq2(s, id) ==
  IF s = <<>> THEN <<>>
  ELSE IF Head(s).transaction_id = id
       THEN <<Head(s)>> \o SelectSeq2(Tail(s), id)
       ELSE SelectSeq2(Tail(s), id)

\* SELECT ... FROM transaction_entries WHERE transaction_id = ?
EntriesOf(d, id) == SelectSeq2(d.transaction_entries, id)

RECURSIVE RemoveEntries(_, _)
RemoveEntries(s, id) ==
  IF s = <<>> THEN <<>>
  ELSE IF Head(s).transaction_id = id
       THEN RemoveEntries(Tail(s), id)
       ELSE <<Head(s)>> \o RemoveEntries(Tail(s), id)

TransactionExists(d, id) == \E t \in d.transactions : t.id = id

Balances(d) == [a \in DOMAIN d.accounts |-> d.accounts[a].balance]

\* LEFT JOIN transactions t ON te.transaction_id = t.id
\*   WHERE (t.date IS NULL OR t.date <= ?)
DatedUpTo(d, e, asOfDate) ==
  \A t \in d.transactions : t.id = e.transaction_id => t.date <= asOfDate

RECURSIVE JoinedEntries(_, _, _, _)
JoinedEntries(d, s, account_id, asOfDate) ==
  IF s = <<>> THEN <<>>
  ELSE IF Head(s).account_id = account_id /\ DatedUpTo(d, Head(s), asOfDate)
       THEN <<Head(s)>> \o JoinedEntries(d, Tail(s), account_id, asOfDate)
       ELSE JoinedEntries(d, Tail(s), account_id, asOfDate)

\* One row of the trial balance query: SUM(te.debit_amount), SUM(te.credit_amount)
\* and their difference for one account.
TrialBalanceRow(d, account_id, asOfDate) ==
  LET rows == JoinedEntries(d, d.transaction_entries, account_id, asOfDate)
  IN  [id |-> account_id,
       total_debits  |-> SumDebits(rows),
       total_credits |-> SumCredits(rows),
       balance       |-> SumDebits(rows) - SumCredits(rows)]

\* WHERE a.is_active = 1 ... HAVING ABS(total_debits) > 0 OR ...
InTrialBalance(d, account_id, asOfDate) ==
  LET row == TrialBalanceRow(d, account_id, asOfDate)
  IN  /\ d.accounts[account_id].is_active
      /\ (Abs(row.total_debits) > 0 \/ Abs(row.total_credits) > 0
            \/ Abs(row.balance) > 0)

Max(x, y) == IF x >= y THEN x ELSE y

\* trialBalance.reduce(...) over the accounts 1..n of the result
RECURSIVE TrialBalanceTotalsUpTo(_, _, _)
TrialBalanceTotalsUpTo(d, n, asOfDate) ==
  IF n = 0 THEN [total_debits |-> 0, total_credits |-> 0]
  ELSE LET acc == TrialBalanceTotalsUpTo(d, n - 1, asOfDate)
           row == TrialBalanceRow(d, n, asOfDate)
       IN  IF InTrialBalance(d, n, asOfDate)
           THEN [total_debits  |-> acc.total_debits + Max(0, row.balance),
                 total_credits |-> acc.total_credits + Max(0, -row.balance)]
           ELSE acc

\* GET /api/reports/trial-balance: totals
TrialBalanceTotals(d, asOfDate) ==
  TrialBalanceTotalsUpTo(d, Len(d.accounts), asOfDate)

\* One row of the balance sheet query: SUM(te.debit_amount) - SUM(te.credit_amount)
\* over the account's entry rows dated up to asOfDate.
BalanceSheetRow(d, account_id, asOfDate) ==
  LET rows == JoinedEntries(d, d.transaction_entries, account_id, asOfDate)
  IN  [id |-> account_id,
       type |-> d.accounts[account_id].type,
       balance |-> SumDebits(rows) - SumCredits(rows)]

\* WHERE a.is_active = 1 AND a.type IN ('asset', 'liability', 'equity')
\*   AND (t.date IS NULL OR t.date <= ?): an account without entry rows keeps
\* its one all-NULL row, an account whose rows are all dated later has none.
InBalanceSheet(d, account_id, asOfDate) ==
  /\ d.accounts[account_id].is_active
  /\ d.accounts[account_id].type \in {"asset", "liability", "equity"}
  /\ \/ \A k \in 1..Len(d.transaction_entries) :
          d.transaction_entries[k].account_id # account_id
     \/ JoinedEntries(d, d.transaction_entries, account_id, asOfDate) # <<>>

\* assets.reduce(sum + acc.balance), liabilities.reduce(sum + Math.abs(acc.balance)),
\* equity.reduce(sum + Math.abs(acc.balance)) over the accounts 1..n
RECURSIVE BalanceSheetSumsUpTo(_, _, _)
BalanceSheetSumsUpTo(d, n, asOfDate) ==
  IF n = 0 THEN [assets |-> 0, liabilities |-> 0, equity |-> 0]
  ELSE LET acc == BalanceSheetSumsUpTo(d, n - 1, asOfDate)
           row == BalanceSheetRow(d, n, asOfDate)
       IN  IF ~ InBalanceSheet(d, n, asOfDate) THEN acc
           ELSE IF row.type = "asset"
           THEN [acc EXCEPT !.assets = @ + row.balance]
           ELSE IF row.type = "liability"
           THEN [acc EXCEPT !.liabilities = @ + Abs(row.balance)]
           ELSE [acc EXCEPT !.equity = @ + Abs(row.balance)]

\* GET /api/reports/balance-sheet: totals
BalanceSheetTotals(d, asOfDate) ==
  LET sums == BalanceSheetSumsUpTo(d, Len(d.accounts), asOfDate)
  IN  [assets |-> sums.assets,
       liabilities_and_equity |-> sums.liabilities + sums.equity]

RECURSIVE ProfitLossEntries(_, _, _, _, _)
\* LEFT JOIN transaction_entries te ... LEFT JOIN transactions t ...
\*   WHERE t.date >= ? AND t.date <= ?: the entry rows of one account whose
\* header exists and is dated in the range.
ProfitLossEntries(d, s, account_id, fromDate, toDate) ==
  IF s = <<>> THEN <<>>
  ELSE LET rest == ProfitLossEntries(d, Tail(s), account_id, fromDate, toDate)
       IN  IF /\ Head(s).account_id = account_id
              /\ \E t \in d.transactions :
                   /\ t.id = Head(s).transaction_id
                   /\ t.date >= fromDate /\ t.date <= toDate
           THEN <<Head(s)>> \o rest
           ELSE rest

\* One row of the profit-and-loss query: SUM(te.credit_amount) - SUM(te.debit_amount)
ProfitLossRow(d, account_id, fromDate, toDate) ==
  LET rows == ProfitLossEntries(d, d.transaction_entries, account_id,
                                fromDate, toDate)
  IN  [id |-> account_id,
       type |-> d.accounts[account_id].type,
       rows |-> Len(rows),
       balance |-> SumCredits(rows) - SumDebits(rows)]

\* WHERE a.is_active = 1 AND a.type IN ('income', 'expense'), then
\* income.reduce(sum + acc.balance) and expenses.reduce(sum + Math.abs(acc.balance))
\* over the accounts 1..n
RECURSIVE ProfitLossSumsUpTo(_, _, _, _)
ProfitLossSumsUpTo(d, n, fromDate, toDate) ==
  IF n = 0 THEN [income |-> 0, expenses |-> 0]
  ELSE LET acc == ProfitLossSumsUpTo(d, n - 1, fromDate, toDate)
           row == ProfitLossRow(d, n, fromDate, toDate)
       IN  IF ~ d.accounts[n].is_active \/ row.rows = 0 THEN acc
           ELSE IF row.type = "income"
           THEN [acc EXCEPT !.income = @ + row.balance]
           ELSE IF row.type = "expense"
           THEN [acc EXCEPT !.expenses = @ + Abs(row.balance)]
           ELSE acc

\* GET /api/reports/profit-loss: net_income
ProfitLossNetIncome(d, fromDate, toDate) ==
  LET sums == ProfitLossSumsUpTo(d, Len(d.accounts), fromDate, toDate)
  IN  sums.income - sums.expenses

\* voucherSchema
VoucherSchemaValid(body) ==
  /\ body.type \in {"payment", "receipt", "journal"}
  /\ body.amount >= 0
  /\ body.status \in {"draft", "approved", "posted", Null}

\* type === 'payment' ? 'PV' : type === 'receipt' ? 'RV' : 'JV'
VoucherPrefix(type) ==
  IF type = "payment" THEN "PV" ELSE IF type = "receipt" THEN "RV" ELSE "JV"

\* SELECT voucher_number FROM vouchers WHERE type = ? ORDER BY id DESC LIMIT 1
LastVoucher(d, type) ==
  {v \in d.vouchers :
     v.type = type /\ \A u \in d.vouchers : u.type = type => u.id <= v.id}

\* match(new RegExp(`${prefix}(\\d+)`)) and parseInt(match[1]) + 1
NextVoucherNumber(d, type) ==
  IF LastVoucher(d, type) = {} THEN 1
  ELSE LET last == CHOOSE v \in LastVoucher(d, type) : TRUE
       IN  IF last.voucher_number.prefix = VoucherPrefix(type)
              /\ last.voucher_number.digits # <<>>
           THEN ParseInt(last.voucher_number.digits) + 1
           ELSE 1

\* `${prefix}${nextNumber.toString().padStart(6, '0')}`
FormatVoucherNumber(prefix, n) ==
  [prefix |-> prefix, digits |-> PadStart(ToDigits(n), PadWidth)]

\* SELECT id, status FROM vouchers WHERE id = ?
VoucherById(d, id) == {v \in d.vouchers : v.id = id}

VoucherStatus(d, id) ==
  IF VoucherById(d, id) = {} THEN "none"
  ELSE (CHOOSE v \in VoucherById(d, id) : TRUE).status

\* stockMovementSchema
MovementSchemaValid(m) == m.movement_type \in {"in", "out", "adjustment"}

\* The adjustment taken as an increment instead of the new level.
StockChangeIncrement(movement_type, quantity, current_stock) ==
  IF movement_type = "out" THEN - quantity ELSE quantity

\* let stockChange = 0; if (movement_type === 'in') ... else if ... 'out' ...
\* else if ... 'adjustment' stockChange = quantity - item.current_stock
StockChange(movement_type, quantity, current_stock) ==
  IF movement_type = "in" THEN quantity
  ELSE IF movement_type = "out" THEN - quantity
  ELSE IF movement_type = "adjustment" THEN quantity - current_stock
  ELSE 0

\* The out movement without its test of the stock at hand.
InsufficientStockNever(movement_type, current_stock, stockChange) == FALSE

\* if (item.current_stock + stockChange < 0): 'Insufficient stock'
InsufficientStock(movement_type, current_stock, stockChange) ==
  movement_type = "out" /\ current_stock + stockChange < 0

----------------------------------------------------------------------------
(* Statements on the shared connection *)

\* UPDATE accounts SET balance = balance + ? WHERE id = ?
UpdateBalance(d, account_id, change) ==
  IF account_id \in DOMAIN d.accounts
  THEN [d EXCEPT !.accounts[account_id].balance = @ + change]
  ELSE d

\* INSERT INTO transaction_entries (...)
InsertEntry(d, transaction_id, e) ==
  [d EXCEPT !.transaction_entries =
     Append(@, [transaction_id |-> transaction_id,
                account_id     |-> e.account_id,
                debit_amount   |-> e.debit_amount,
                credit_amount  |-> e.credit_amount])]

\* The transactions table without the UNIQUE index on transaction_number.
NoUniqueIndex(d, number) == TRUE

\* transaction_number TEXT UNIQUE NOT NULL
TransactionNumberUnique(d, number) ==
  \A t \in d.transactions : t.transaction_number # number

\* INSERT INTO transactions (...): AUTOINCREMENT takes the next id
InsertTransaction(d, number, date, total) ==
  [d EXCEPT !.seq = @ + 1,
            !.transactions = @ \cup {[id |-> d.seq + 1,
                                      transaction_number |-> number,
                                      date |-> date,
                                      total_amount |-> total]}]

\* UPDATE transactions SET date = ?, ..., total_amount = ? WHERE id = ?
UpdateTransaction(d, id, date, total) ==
  [d EXCEPT !.transactions =
     {IF t.id = id THEN [t EXCEPT !.date = date, !.total_amount = total] ELSE t
        : t \in @}]

\* DELETE FROM transaction_entries WHERE transaction_id = ?
DeleteEntries(d, id) ==
  [d EXCEPT !.transaction_entries = RemoveEntries(@, id)]

\* DELETE FROM transactions WHERE id = ?
DeleteTransaction(d, id) ==
  [d EXCEPT !.transactions = {t \in @ : t.id # id}]

----------------------------------------------------------------------------
(* Initial state *)

\* The chart initializeDatabase seeds, cut down to two of its accounts.
DefaultAccounts ==
  << [code |-> "1110", type |-> "asset",   balance |-> 0, is_active |-> TRUE],
     [code |-> "5230", type |-> "expense", balance |-> 0, is_active |-> TRUE] >>

InitDb ==
  [accounts |-> DefaultAccounts,
   transactions |-> {},
   transaction_entries |-> <<>>,
   seq |-> 0,
   vouchers |-> {},
   vseq |-> 0,
   inventory_items |-> <<>>,
   stock_movements |-> <<>>]

NoNumber == [prefix |-> "", digits |-> <<>>]

NoBody == [type |-> "", amount |-> 0, status |-> ""]

NoTable == [tableName |-> "", data |-> <<>>]

NoMovement == [item_id |-> 0, movement_type |-> "", quantity |-> 0]

Idle ==
  [op |-> "none", pc |-> "idle", status |-> 0, id |-> 0, date |-> 0,
   entries |-> <<>>, i |-> 0, lastID |-> 0, transactionNumber |-> NoNumber,
   totalAmount |-> 0, oldEntries |-> <<>>, found |-> FALSE, failed |-> "",
   code |-> "", type |-> "", pre |-> InitDb, postBal |-> <<>>,
   seen |-> InitDb, writer |-> "none",
   body |-> NoBody, voucherNumber |-> NoNumber,
   movement |-> NoMovement, stockChange |-> 0,
   table |-> NoTable, row |-> 0]

NoPost == [id |-> 0, bal |-> <<>>]

\* The prefixes of the numbering schemes.
Prefixes == {"TXN", "PV", "RV", "JV"}

NoneIssued == [p \in Prefixes |-> 0]

Init ==
  /\ db = InitDb
  /\ inTxn = FALSE
  /\ snapshot = InitDb
  /\ req = [r \in Slots |-> Idle]
  /\ budget = MaxRequests
  /\ lastPost = NoPost
  /\ issued = NoneIssued

----------------------------------------------------------------------------
(* Handler plumbing *)

Set(r, rec) == req' = [req EXCEPT ![r] = rec]

\* res.status(s).json(...): the handler has answered
Respond(r, s) == [req[r] EXCEPT !.pc = "done", !.status = s]

CanStart(r) ==
  /\ req[r].pc = "idle"
  /\ \A q \in Slots : q < r => req[q].pc # "idle"
  /\ budget > 0

\* BEGIN TRANSACTION on the shared connection
Begin(r, next) ==
  IF inTxn
  THEN \* "cannot start a transaction within a transaction": outer catch
       /\ Set(r, Respond(r, 500))
       /\ UNCHANGED <<db, inTxn, snapshot>>
  ELSE /\ inTxn' = TRUE
       /\ snapshot' = db
       /\ Set(r, [req[r] EXCEPT !.pc = next])
       /\ UNCHANGED db

\* The COMMIT that leaves the transaction open.
CommitLeavesOpen(r, next) ==
  /\ Set(r, [req[r] EXCEPT !.pc = next])
  /\ UNCHANGED <<db, inTxn, snapshot>>

\* COMMIT
Commit(r, next) ==
  IF inTxn
  THEN /\ inTxn' = FALSE
       /\ Set(r, [req[r] EXCEPT !.pc = next])
       /\ UNCHANGED <<db, snapshot>>
  ELSE \* "cannot commit - no transaction is active": inner catch
       /\ Set(r, [req[r] EXCEPT !.pc = "rollback"])
       /\ UNCHANGED <<db, inTxn, snapshot>>

\* The catch block answering 500 without undoing the open transaction's writes.
RollbackWithoutRestore(r) ==
  /\ req[r].pc = "rollback"
  /\ inTxn' = FALSE
  /\ Set(r, Respond(r, 500))
  /\ UNCHANGED <<db, snapshot, budget, lastPost, issued>>

\* catch (error) { await db.run('ROLLBACK'); throw error; } and the outer catch
Rollback(r) ==
  /\ req[r].pc = "rollback"
  /\ IF inTxn
     THEN db' = snapshot /\ inTxn' = FALSE
     ELSE UNCHANGED <<db, inTxn>>
  /\ Set(r, Respond(r, 500))
  /\ UNCHANGED <<snapshot, budget, lastPost, issued>>

\* A statement the store refuses: the promise rejects, nothing is written, and
\* control passes to the catch block around the atomic unit.
StatementFails(r) ==
  /\ Set(r, [req[r] EXCEPT !.pc = "rollback", !.failed = req[r].pc])
  /\ UNCHANGED <<db, inTxn, snapshot, budget, lastPost, issued>>

\* The response has been sent; the slot is free again.
Finish(r) ==
  /\ req[r].pc = "done"
  /\ Set(r, Idle)
  /\ UNCHANGED <<db, inTxn, snapshot, budget, lastPost, issued>>

----------------------------------------------------------------------------
(* POST /api/transactions *)

PostStart(r, date, entries) ==
  /\ CanStart(r)
  /\ budget' = budget - 1
  /\ lastPost' = NoPost
  /\ UNCHANGED issued
  /\ LET base == [Idle EXCEPT !.op = "post", !.date = date,
                              !.entries = entries, !.pre = db]
     IN  IF ~ TransactionSchemaValid(entries)
         THEN req' = [req EXCEPT ![r] = [base EXCEPT !.pc = "done", !.status = 400]]
         ELSE req' = [req EXCEPT ![r] =
                        [base EXCEPT !.pc = "begin",
                                     !.transactionNumber =
                                        FormatTransactionNumber(NextNumber(db)),
                                     !.totalAmount = SumDebits(entries)]]
  /\ UNCHANGED <<db, inTxn, snapshot>>

PostBegin(r) ==
  /\ req[r].op = "post" /\ req[r].pc = "begin"
  /\ Begin(r, "insertHeader")
  /\ UNCHANGED <<budget, lastPost, issued>>

PostInsertHeader(r) ==
  /\ req[r].op = "post" /\ req[r].pc = "insertHeader"
  /\ IF TransactionNumberUnique(db, req[r].transactionNumber)
     THEN /\ db' = InsertTransaction(db, req[r].transactionNumber,
                                     req[r].date, req[r].totalAmount)
          /\ Set(r, [req[r] EXCEPT !.pc = "insertEntry", !.i = 1,
                                   !.lastID = db.seq + 1])
     ELSE /\ Set(r, [req[r] EXCEPT !.pc = "rollback"])
          /\ UNCHANGED db
  /\ UNCHANGED <<inTxn, snapshot, budget, lastPost, issued>>

PostInsertEntry(r) ==
  /\ req[r].op = "post" /\ req[r].pc = "insertEntry"
  /\ db' = InsertEntry(db, req[r].lastID, req[r].entries[req[r].i])
  /\ Set(r, [req[r] EXCEPT !.pc = "updateBalance"])
  /\ UNCHANGED <<inTxn, snapshot, budget, lastPost, issued>>

\* The balance update with debit and credit swapped.
PostUpdateBalanceSwapped(r) ==
  /\ req[r].op = "post" /\ req[r].pc = "updateBalance"
  /\ LET entry == req[r].entries[req[r].i]
         balanceChange == entry.credit_amount - entry.debit_amount
     IN  db' = UpdateBalance(db, entry.account_id, balanceChange)
  /\ Set(r, [req[r] EXCEPT !.i = @ + 1,
                           !.pc = IF req[r].i < Len(req[r].entries)
                                  THEN "insertEntry" ELSE "commit"])
  /\ UNCHANGED <<inTxn, snapshot, budget, lastPost, issued>>

PostUpdateBalance(r) ==
  /\ req[r].op = "post" /\ req[r].pc = "updateBalance"
  /\ LET entry == req[r].entries[req[r].i]
         balanceChange == entry.debit_amount - entry.credit_amount
     IN  db' = UpdateBalance(db, entry.account_id, balanceChange)
  /\ Set(r, [req[r] EXCEPT !.i = @ + 1,
                           !.pc = IF req[r].i < Len(req[r].entries)
                                  THEN "insertEntry" ELSE "commit"])
  /\ UNCHANGED <<inTxn, snapshot, budget, lastPost, issued>>

PostCommit(r) ==
  /\ req[r].op = "post" /\ req[r].pc = "commit"
  /\ Commit(r, "fetch")
  /\ UNCHANGED <<budget, lastPost, issued>>

\* SELECT t.* ... WHERE t.id = ?  (newTransaction)
PostFetch(r) ==
  /\ req[r].op = "post" /\ req[r].pc = "fetch"
  /\ Set(r, [req[r] EXCEPT !.pc = "fetchEntries",
                           !.found = TransactionExists(db, req[r].lastID)])
  /\ UNCHANGED <<db, inTxn, snapshot, budget, lastPost, issued>>

\* SELECT te.* ...; newTransaction.entries = newEntries; res.status(201)
PostFetchEntries(r) ==
  /\ req[r].op = "post" /\ req[r].pc = "fetchEntries"
  /\ IF req[r].found
     THEN /\ Set(r, Respond(r, 201))
          /\ lastPost' = [id |-> req[r].lastID, bal |-> Balances(req[r].pre)]
          /\ issued' = [issued EXCEPT !["TXN"] =
                          ParseInt(req[r].transactionNumber.digits)]
     ELSE \* TypeError on undefined: inner catch
          /\ Set(r, [req[r] EXCEPT !.pc = "rollback"])
          /\ UNCHANGED <<lastPost, issued>>
  /\ UNCHANGED <<db, inTxn, snapshot, budget>>

PostStatementFails(r) ==
  /\ req[r].op = "post"
  /\ req[r].pc \in {"insertHeader", "insertEntry", "updateBalance", "commit",
                    "fetch", "fetchEntries"}
  /\ StatementFails(r)

Post(r, D, L) ==
  \/ \E date \in D, entries \in L : PostStart(r, date, entries)
  \/ PostBegin(r)
  \/ PostInsertHeader(r)
  \/ PostInsertEntry(r)
  \/ PostUpdateBalance(r)
  \/ PostCommit(r)
  \/ PostFetch(r)
  \/ PostFetchEntries(r)
  \/ PostStatementFails(r)

----------------------------------------------------------------------------
(* PUT /api/transactions/:id *)

AmendStart(r, id, date, entries) ==
  /\ CanStart(r)
  /\ budget' = budget - 1
  /\ lastPost' = NoPost
  /\ UNCHANGED issued
  /\ LET base == [Idle EXCEPT !.op = "amend", !.id = id, !.date = date,
                              !.entries = entries, !.pre = db]
     IN  IF ~ TransactionSchemaValid(entries)
         THEN req' = [req EXCEPT ![r] = [base EXCEPT !.pc = "done", !.status = 400]]
         ELSE IF ~ TransactionExists(db, id)
         THEN req' = [req EXCEPT ![r] = [base EXCEPT !.pc = "done", !.status = 404]]
         ELSE req' = [req EXCEPT ![r] =
                        [base EXCEPT !.pc = "begin",
                                     !.totalAmount = SumDebits(entries)]]
  /\ UNCHANGED <<db, inTxn, snapshot>>

AmendBegin(r) ==
  /\ req[r].op = "amend" /\ req[r].pc = "begin"
  /\ Begin(r, "readOld")
  /\ UNCHANGED <<budget, lastPost, issued>>

\* const oldEntries = await db.all('SELECT ... WHERE transaction_id = ?')
AmendReadOld(r) ==
  /\ req[r].op = "amend" /\ req[r].pc = "readOld"
  /\ LET old == EntriesOf(db, req[r].id)
     IN  Set(r, [req[r] EXCEPT !.oldEntries = old, !.i = 1,
                               !.pc = IF old = <<>> THEN "deleteOld" ELSE "reverse"])
  /\ UNCHANGED <<db, inTxn, snapshot, budget, lastPost, issued>>

\* The amend loop that walks the old entries without reversing them.
AmendReverseSkipped(r) ==
  /\ req[r].op = "amend" /\ req[r].pc = "reverse"
  /\ Set(r, [req[r] EXCEPT !.i = @ + 1,
                           !.pc = IF req[r].i < Len(req[r].oldEntries)
                                  THEN "reverse" ELSE "deleteOld"])
  /\ UNCHANGED <<db, inTxn, snapshot, budget, lastPost, issued>>

AmendReverse(r) ==
  /\ req[r].op = "amend" /\ req[r].pc = "reverse"
  /\ LET entry == req[r].oldEntries[req[r].i]
         balanceChange == entry.credit_amount - entry.debit_amount
     IN  db' = UpdateBalance(db, entry.account_id, balanceChange)
  /\ Set(r, [req[r] EXCEPT !.i = @ + 1,
                           !.pc = IF req[r].i < Len(req[r].oldEntries)
                                  THEN "reverse" ELSE "deleteOld"])
  /\ UNCHANGED <<inTxn, snapshot, budget, lastPost, issued>>

AmendDeleteOld(r) ==
  /\ req[r].op = "amend" /\ req[r].pc = "deleteOld"
  /\ db' = DeleteEntries(db, req[r].id)
  /\ Set(r, [req[r] EXCEPT !.pc = "updateHeader"])
  /\ UNCHANGED <<inTxn, snapshot, budget, lastPost, issued>>

\* The amend that rewrites the header's date but keeps the old total_amount.
AmendUpdateHeaderKeepsTotal(r) ==
  /\ req[r].op = "amend" /\ req[r].pc = "updateHeader"
  /\ db' = [db EXCEPT !.transactions =
              {IF t.id = req[r].id THEN [t EXCEPT !.date = req[r].date] ELSE t
                 : t \in @}]
  /\ Set(r, [req[r] EXCEPT !.pc = "insertEntry", !.i = 1])
  /\ UNCHANGED <<inTxn, snapshot, budget, lastPost, issued>>

AmendUpdateHeader(r) ==
  /\ req[r].op = "amend" /\ req[r].pc = "updateHeader"
  /\ db' = UpdateTransaction(db, req[r].id, req[r].date, req[r].totalAmount)
  /\ Set(r, [req[r] EXCEPT !.pc = "insertEntry", !.i = 1])
  /\ UNCHANGED <<inTxn, snapshot, budget, lastPost, issued>>

AmendInsertEntry(r) ==
  /\ req[r].op = "amend" /\ req[r].pc = "insertEntry"
  /\ db' = InsertEntry(db, req[r].id, req[r].entries[req[r].i])
  /\ Set(r, [req[r] EXCEPT !.pc = "updateBalance"])
  /\ UNCHANGED <<inTxn, snapshot, budget, lastPost, issued>>

AmendUpdateBalance(r) ==
  /\ req[r].op = "amend" /\ req[r].pc = "updateBalance"
  /\ LET entry == req[r].entries[req[r].i]
         balanceChange == entry.debit_amount - entry.credit_amount
     IN  db' = UpdateBalance(db, entry.account_id, balanceChange)
  /\ Set(r, [req[r] EXCEPT !.i = @ + 1,
                           !.pc = IF req[r].i < Len(req[r].entries)
                                  THEN "insertEntry" ELSE "commit"])
  /\ UNCHANGED <<inTxn, snapshot, budget, lastPost, issued>>

AmendCommit(r) ==
  /\ req[r].op = "amend" /\ req[r].pc = "commit"
  /\ Commit(r, "fetch")
  /\ UNCHANGED <<budget, lastPost, issued>>

\* SELECT t.* ... WHERE t.id = ?  (updatedTransaction)
AmendFetch(r) ==
  /\ req[r].op = "amend" /\ req[r].pc = "fetch"
  /\ Set(r, [req[r] EXCEPT !.pc = "fetchEntries",
                           !.found = TransactionExists(db, req[r].id)])
  /\ UNCHANGED <<db, inTxn, snapshot, budget, lastPost, issued>>

\* updatedTransaction.entries = updatedEntries; res.json(updatedTransaction)
AmendFetchEntries(r) ==
  /\ req[r].op = "amend" /\ req[r].pc = "fetchEntries"
  /\ IF req[r].found
     THEN Set(r, Respond(r, 200))
     ELSE Set(r, [req[r] EXCEPT !.pc = "rollback"])
  /\ UNCHANGED <<db, inTxn, snapshot, budget, lastPost, issued>>

AmendStatementFails(r) ==
  /\ req[r].op = "amend"
  /\ req[r].pc \in {"readOld", "reverse", "deleteOld", "updateHeader",
                    "insertEntry", "updateBalance", "commit",
                    "fetch", "fetchEntries"}
  /\ StatementFails(r)

Amend(r, D, L) ==
  \/ \E id \in TxnIds, date \in D, entries \in L :
       AmendStart(r, id, date, entries)
  \/ AmendBegin(r)
  \/ AmendReadOld(r)
  \/ AmendReverse(r)
  \/ AmendDeleteOld(r)
  \/ AmendUpdateHeader(r)
  \/ AmendInsertEntry(r)
  \/ AmendUpdateBalance(r)
  \/ AmendCommit(r)
  \/ AmendFetch(r)
  \/ AmendFetchEntries(r)
  \/ AmendStatementFails(r)

----------------------------------------------------------------------------
(* DELETE /api/transactions/:id *)

VoidStart(r, id) ==
  /\ CanStart(r)
  /\ budget' = budget - 1
  /\ lastPost' = NoPost
  /\ UNCHANGED issued
  /\ LET base == [Idle EXCEPT !.op = "void", !.id = id, !.pre = db,
                              !.postBal = IF lastPost.id = id
                                          THEN lastPost.bal ELSE <<>>]
     IN  IF ~ TransactionExists(db, id)
         THEN req' = [req EXCEPT ![r] = [base EXCEPT !.pc = "done", !.status = 404]]
         ELSE req' = [req EXCEPT ![r] = [base EXCEPT !.pc = "begin"]]
  /\ UNCHANGED <<db, inTxn, snapshot>>

VoidBegin(r) ==
  /\ req[r].op = "void" /\ req[r].pc = "begin"
  /\ Begin(r, "readOld")
  /\ UNCHANGED <<budget, lastPost, issued>>

\* const entries = await db.all('SELECT ... WHERE transaction_id = ?')
VoidReadEntries(r) ==
  /\ req[r].op = "void" /\ req[r].pc = "readOld"
  /\ LET old == EntriesOf(db, req[r].id)
     IN  Set(r, [req[r] EXCEPT !.oldEntries = old, !.i = 1,
                               !.pc = IF old = <<>> THEN "deleteOld" ELSE "reverse"])
  /\ UNCHANGED <<db, inTxn, snapshot, budget, lastPost, issued>>

\* The void loop applying the entries' effect again instead of negating it.
VoidReverseWrongSign(r) ==
  /\ req[r].op = "void" /\ req[r].pc = "reverse"
  /\ LET entry == req[r].oldEntries[req[r].i]
         balanceChange == entry.debit_amount - entry.credit_amount
     IN  db' = UpdateBalance(db, entry.account_id, balanceChange)
  /\ Set(r, [req[r] EXCEPT !.i = @ + 1,
                           !.pc = IF req[r].i < Len(req[r].oldEntries)
                                  THEN "reverse" ELSE "deleteOld"])
  /\ UNCHANGED <<inTxn, snapshot, budget, lastPost, issued>>

VoidReverse(r) ==
  /\ req[r].op = "void" /\ req[r].pc = "reverse"
  /\ LET entry == req[r].oldEntries[req[r].i]
         balanceChange == entry.credit_amount - entry.debit_amount
     IN  db' = UpdateBalance(db, entry.account_id, balanceChange)
  /\ Set(r, [req[r] EXCEPT !.i = @ + 1,
                           !.pc = IF req[r].i < Len(req[r].oldEntries)
                                  THEN "reverse" ELSE "deleteOld"])
  /\ UNCHANGED <<inTxn, snapshot, budget, lastPost, issued>>

VoidDeleteEntries(r) ==
  /\ req[r].op = "void" /\ req[r].pc = "deleteOld"
  /\ db' = DeleteEntries(db, req[r].id)
  /\ Set(r, [req[r] EXCEPT !.pc = "deleteHeader"])
  /\ UNCHANGED <<inTxn, snapshot, budget, lastPost, issued>>

\* The void that removes the entry rows but leaves the header row.
VoidDeleteTransactionSkipped(r) ==
  /\ req[r].op = "void" /\ req[r].pc = "deleteHeader"
  /\ Set(r, [req[r] EXCEPT !.pc = "commit"])
  /\ UNCHANGED <<db, inTxn, snapshot, budget, lastPost, issued>>

VoidDeleteTransaction(r) ==
  /\ req[r].op = "void" /\ req[r].pc = "deleteHeader"
  /\ db' = DeleteTransaction(db, req[r].id)
  /\ Set(r, [req[r] EXCEPT !.pc = "commit"])
  /\ UNCHANGED <<inTxn, snapshot, budget, lastPost, issued>>

\* await db.run('COMMIT'); res.json({ message: ... })
VoidCommit(r) ==
  /\ req[r].op = "void" /\ req[r].pc = "commit"
  /\ IF inTxn
     THEN /\ inTxn' = FALSE
          /\ Set(r, Respond(r, 200))
     ELSE /\ Set(r, [req[r] EXCEPT !.pc = "rollback"])
          /\ UNCHANGED inTxn
  /\ UNCHANGED <<db, snapshot, budget, lastPost, issued>>

VoidStatementFails(r) ==
  /\ req[r].op = "void"
  /\ req[r].pc \in {"readOld", "reverse", "deleteOld", "deleteHeader", "commit"}
  /\ StatementFails(r)

Void(r) ==
  \/ \E id \in TxnIds : VoidStart(r, id)
  \/ VoidBegin(r)
  \/ VoidReadEntries(r)
  \/ VoidReverse(r)
  \/ VoidDeleteEntries(r)
  \/ VoidDeleteTransaction(r)
  \/ VoidCommit(r)
  \/ VoidStatementFails(r)

----------------------------------------------------------------------------
(* POST /api/accounts *)

AccountCreateStart(r, code, type) ==
  /\ CanStart(r)
  /\ budget' = budget - 1
  /\ lastPost' = NoPost
  /\ UNCHANGED issued
  /\ LET base == [Idle EXCEPT !.op = "createAccount", !.code = code,
                              !.type = type, !.pre = db]
     IN  IF type \notin AccountTypes
         THEN req' = [req EXCEPT ![r] = [base EXCEPT !.pc = "done", !.status = 400]]
         ELSE IF \E a \in DOMAIN db.accounts : db.accounts[a].code = code
         THEN req' = [req EXCEPT ![r] = [base EXCEPT !.pc = "done", !.status = 409]]
         ELSE req' = [req EXCEPT ![r] = [base EXCEPT !.pc = "insert"]]
  /\ UNCHANGED <<db, inTxn, snapshot>>

\* INSERT INTO accounts (code, name, type, parent_id); code TEXT UNIQUE NOT NULL,
\* balance DEFAULT 0, is_active DEFAULT 1
AccountCreateInsert(r) ==
  /\ req[r].op = "createAccount" /\ req[r].pc = "insert"
  /\ IF \A a \in DOMAIN db.accounts : db.accounts[a].code # req[r].code
     THEN /\ db' = [db EXCEPT !.accounts =
                       Append(@, [code |-> req[r].code, type |-> req[r].type,
                                  balance |-> 0, is_active |-> TRUE])]
          /\ Set(r, [req[r] EXCEPT !.pc = "fetch",
                                   !.lastID = Len(db.accounts) + 1])
     ELSE /\ Set(r, Respond(r, 500))
          /\ UNCHANGED db
  /\ UNCHANGED <<inTxn, snapshot, budget, lastPost, issued>>

\* SELECT a.*, p.name ... WHERE a.id = ?; res.status(201).json(newAccount)
AccountCreateFetch(r) ==
  /\ req[r].op = "createAccount" /\ req[r].pc = "fetch"
  /\ Set(r, Respond(r, 201))
  /\ UNCHANGED <<db, inTxn, snapshot, budget, lastPost, issued>>

AccountCreate(r) ==
  \/ \E a \in NewAccounts : AccountCreateStart(r, a.code, a.type)
  \/ AccountCreateInsert(r)
  \/ AccountCreateFetch(r)

----------------------------------------------------------------------------
(* PUT /api/accounts/:id *)

AccountUpdateStart(r, id, code, type) ==
  /\ CanStart(r)
  /\ budget' = budget - 1
  /\ lastPost' = NoPost
  /\ UNCHANGED issued
  /\ LET base == [Idle EXCEPT !.op = "updateAccount", !.id = id, !.code = code,
                              !.type = type, !.pre = db]
     IN  IF type \notin AccountTypes
         THEN req' = [req EXCEPT ![r] = [base EXCEPT !.pc = "done", !.status = 400]]
         ELSE IF id \notin DOMAIN db.accounts
         THEN req' = [req EXCEPT ![r] = [base EXCEPT !.pc = "done", !.status = 404]]
         ELSE req' = [req EXCEPT ![r] = [base EXCEPT !.pc = "checkConflict"]]
  /\ UNCHANGED <<db, inTxn, snapshot>>

\* The update handler without its look-up of the code among the other accounts.
AccountUpdateCheckConflictSkipped(r) ==
  /\ req[r].op = "updateAccount" /\ req[r].pc = "checkConflict"
  /\ Set(r, [req[r] EXCEPT !.pc = "update"])
  /\ UNCHANGED <<db, inTxn, snapshot, budget, lastPost, issued>>

\* SELECT id FROM accounts WHERE code = ? AND id != ?
AccountUpdateCheckConflict(r) ==
  /\ req[r].op = "updateAccount" /\ req[r].pc = "checkConflict"
  /\ IF \E a \in DOMAIN db.accounts :
          db.accounts[a].code = req[r].code /\ a # req[r].id
     THEN Set(r, Respond(r, 409))
     ELSE Set(r, [req[r] EXCEPT !.pc = "update"])
  /\ UNCHANGED <<db, inTxn, snapshot, budget, lastPost, issued>>

\* The account update writing the balance column as well.
AccountUpdateRunResetsBalance(r) ==
  /\ req[r].op = "updateAccount" /\ req[r].pc = "update"
  /\ db' = IF req[r].id \in DOMAIN db.accounts
           THEN [db EXCEPT !.accounts[req[r].id].code = req[r].code,
                           !.accounts[req[r].id].type = req[r].type,
                           !.accounts[req[r].id].balance = 0]
           ELSE db
  /\ Set(r, [req[r] EXCEPT !.pc = "fetch"])
  /\ UNCHANGED <<inTxn, snapshot, budget, lastPost, issued>>

\* UPDATE accounts SET code = ?, name = ?, type = ?, ... WHERE id = ?;
\* code TEXT UNIQUE NOT NULL
AccountUpdateRun(r) ==
  /\ req[r].op = "updateAccount" /\ req[r].pc = "update"
  /\ IF \E a \in DOMAIN db.accounts :
          db.accounts[a].code = req[r].code /\ a # req[r].id
     THEN /\ Set(r, Respond(r, 500))
          /\ UNCHANGED db
     ELSE /\ db' = IF req[r].id \in DOMAIN db.accounts
                   THEN [db EXCEPT !.accounts[req[r].id].code = req[r].code,
                                   !.accounts[req[r].id].type = req[r].type]
                   ELSE db
          /\ Set(r, [req[r] EXCEPT !.pc = "fetch"])
  /\ UNCHANGED <<inTxn, snapshot, budget, lastPost, issued>>

\* SELECT a.*, p.name ... WHERE a.id = ?; res.json(updatedAccount)
AccountUpdateFetch(r) ==
  /\ req[r].op = "updateAccount" /\ req[r].pc = "fetch"
  /\ Set(r, Respond(r, 200))
  /\ UNCHANGED <<db, inTxn, snapshot, budget, lastPost, issued>>

AccountUpdate(r) ==
  \/ \E id \in AccountIds, a \in NewAccounts :
       AccountUpdateStart(r, id, a.code, a.type)
  \/ AccountUpdateCheckConflict(r)
  \/ AccountUpdateRun(r)
  \/ AccountUpdateFetch(r)

----------------------------------------------------------------------------
(* DELETE /api/accounts/:id *)

DeactivateStart(r, id) ==
  /\ CanStart(r)
  /\ budget' = budget - 1
  /\ lastPost' = NoPost
  /\ UNCHANGED issued
  /\ LET base == [Idle EXCEPT !.op = "deactivate", !.id = id, !.pre = db]
     IN  IF id \notin DOMAIN db.accounts
         THEN req' = [req EXCEPT ![r] = [base EXCEPT !.pc = "done", !.status = 404]]
         ELSE req' = [req EXCEPT ![r] = [base EXCEPT !.pc = "checkEntries"]]
  /\ UNCHANGED <<db, inTxn, snapshot>>

\* The deactivate handler without its look-up of entries naming the account.
DeactivateCheckEntriesSkipped(r) ==
  /\ req[r].op = "deactivate" /\ req[r].pc = "checkEntries"
  /\ Set(r, [req[r] EXCEPT !.pc = "update"])
  /\ UNCHANGED <<db, inTxn, snapshot, budget, lastPost, issued>>

\* SELECT id FROM transaction_entries WHERE account_id = ? LIMIT 1
DeactivateCheckEntries(r) ==
  /\ req[r].op = "deactivate" /\ req[r].pc = "checkEntries"
  /\ IF \E k \in 1..Len(db.transaction_entries) :
            db.transaction_entries[k].account_id = req[r].id
     THEN Set(r, Respond(r, 400))
     ELSE Set(r, [req[r] EXCEPT !.pc = "update"])
  /\ UNCHANGED <<db, inTxn, snapshot, budget, lastPost, issued>>

\* UPDATE accounts SET is_active = 0 WHERE id = ?
DeactivateUpdate(r) ==
  /\ req[r].op = "deactivate" /\ req[r].pc = "update"
  /\ db' = IF req[r].id \in DOMAIN db.accounts
           THEN [db EXCEPT !.accounts[req[r].id].is_active = FALSE]
           ELSE db
  /\ Set(r, Respond(r, 200))
  /\ UNCHANGED <<inTxn, snapshot, budget, lastPost, issued>>

Deactivate(r) ==
  \/ \E id \in AccountIds : DeactivateStart(r, id)
  \/ DeactivateCheckEntries(r)
  \/ DeactivateUpdate(r)

----------------------------------------------------------------------------
(* POST /api/vouchers *)

\* The start of every voucher handler: a free slot takes the request.
VoucherRequest(r, rec) ==
  /\ CanStart(r)
  /\ budget' = budget - 1
  /\ lastPost' = NoPost
  /\ Set(r, rec)
  /\ UNCHANGED <<db, inTxn, snapshot, issued>>

VoucherCreateStart(r, body) ==
  LET base == [Idle EXCEPT !.op = "createVoucher", !.body = body, !.pre = db]
  IN  VoucherRequest(r,
        IF ~ VoucherSchemaValid(body)
        THEN [base EXCEPT !.pc = "done", !.status = 400]
        ELSE [base EXCEPT !.pc = "insert",
                          !.voucherNumber =
                             FormatVoucherNumber(VoucherPrefix(body.type),
                                                 NextVoucherNumber(db, body.type))])

\* INSERT INTO vouchers (...); voucher_number TEXT UNIQUE NOT NULL
VoucherCreateInsert(r) ==
  /\ req[r].op = "createVoucher" /\ req[r].pc = "insert"
  /\ IF \A v \in db.vouchers : v.voucher_number # req[r].voucherNumber
     THEN /\ db' = [db EXCEPT !.vseq = @ + 1,
                              !.vouchers = @ \cup
                                 {[id |-> db.vseq + 1,
                                   voucher_number |-> req[r].voucherNumber,
                                   type   |-> req[r].body.type,
                                   amount |-> req[r].body.amount,
                                   status |-> req[r].body.status]}]
          /\ Set(r, [req[r] EXCEPT !.pc = "fetch", !.lastID = db.vseq + 1])
     ELSE /\ Set(r, Respond(r, 500))
          /\ UNCHANGED db
  /\ UNCHANGED <<inTxn, snapshot, budget, lastPost, issued>>

\* SELECT v.* ... WHERE v.id = ?; res.status(201).json(newVoucher)
VoucherCreateFetch(r) ==
  /\ req[r].op = "createVoucher" /\ req[r].pc = "fetch"
  /\ Set(r, Respond(r, 201))
  /\ issued' = [issued EXCEPT ![req[r].voucherNumber.prefix] =
                  ParseInt(req[r].voucherNumber.digits)]
  /\ UNCHANGED <<db, inTxn, snapshot, budget, lastPost>>

VoucherCreate(r, B) ==
  \/ \E body \in B : VoucherCreateStart(r, body)
  \/ VoucherCreateInsert(r)
  \/ VoucherCreateFetch(r)

----------------------------------------------------------------------------
(* PUT /api/vouchers/:id *)

VoucherUpdateStart(r, id, body) ==
  LET base == [Idle EXCEPT !.op = "updateVoucher", !.id = id, !.body = body,
                           !.pre = db]
  IN  VoucherRequest(r,
        IF ~ VoucherSchemaValid(body)
        THEN [base EXCEPT !.pc = "done", !.status = 400]
        ELSE IF VoucherById(db, id) = {}
        THEN [base EXCEPT !.pc = "done", !.status = 404]
        ELSE IF VoucherStatus(db, id) = "posted"
        THEN [base EXCEPT !.pc = "done", !.status = 400]
        ELSE [base EXCEPT !.pc = "update"])

\* UPDATE vouchers SET type = ?, ..., amount = ?, ..., status = ? WHERE id = ?
VoucherUpdateRun(r) ==
  /\ req[r].op = "updateVoucher" /\ req[r].pc = "update"
  /\ db' = [db EXCEPT !.vouchers =
              {IF v.id = req[r].id
               THEN [v EXCEPT !.type = req[r].body.type,
                              !.amount = req[r].body.amount,
                              !.status = req[r].body.status]
               ELSE v : v \in @}]
  /\ Set(r, [req[r] EXCEPT !.pc = "fetch"])
  /\ UNCHANGED <<inTxn, snapshot, budget, lastPost, issued>>

\* SELECT v.* ... WHERE v.id = ?; res.json(updatedVoucher)
VoucherUpdateFetch(r) ==
  /\ req[r].op = "updateVoucher" /\ req[r].pc = "fetch"
  /\ Set(r, Respond(r, 200))
  /\ UNCHANGED <<db, inTxn, snapshot, budget, lastPost, issued>>

VoucherUpdate(r, B) ==
  \/ \E id \in VoucherIds, body \in B : VoucherUpdateStart(r, id, body)
  \/ VoucherUpdateRun(r)
  \/ VoucherUpdateFetch(r)

----------------------------------------------------------------------------
(* DELETE /api/vouchers/:id *)

VoucherDeleteStart(r, id) ==
  LET base == [Idle EXCEPT !.op = "deleteVoucher", !.id = id, !.pre = db]
  IN  VoucherRequest(r,
        IF VoucherById(db, id) = {}
        THEN [base EXCEPT !.pc = "done", !.status = 404]
        ELSE IF VoucherStatus(db, id) = "posted"
        THEN [base EXCEPT !.pc = "done", !.status = 400]
        ELSE [base EXCEPT !.pc = "delete"])

\* DELETE FROM vouchers WHERE id = ?; res.json({ message: ... })
VoucherDeleteRun(r) ==
  /\ req[r].op = "deleteVoucher" /\ req[r].pc = "delete"
  /\ db' = [db EXCEPT !.vouchers = {v \in @ : v.id # req[r].id}]
  /\ Set(r, Respond(r, 200))
  /\ UNCHANGED <<inTxn, snapshot, budget, lastPost, issued>>

VoucherDelete(r) ==
  \/ \E id \in VoucherIds : VoucherDeleteStart(r, id)
  \/ VoucherDeleteRun(r)

----------------------------------------------------------------------------
(* POST /api/vouchers/:id/approve and POST /api/vouchers/:id/post *)

\* UPDATE vouchers SET status = ? WHERE id = ?
SetVoucherStatus(d, id, status) ==
  [d EXCEPT !.vouchers =
     {IF v.id = id THEN [v EXCEPT !.status = status] ELSE v : v \in @}]

\* The approve handler without its test of the voucher's status.
VoucherApproveStartUnchecked(r, id) ==
  LET base == [Idle EXCEPT !.op = "approveVoucher", !.id = id, !.pre = db]
  IN  VoucherRequest(r,
        IF VoucherById(db, id) = {}
        THEN [base EXCEPT !.pc = "done", !.status = 404]
        ELSE [base EXCEPT !.pc = "update"])

VoucherApproveStart(r, id) ==
  LET base == [Idle EXCEPT !.op = "approveVoucher", !.id = id, !.pre = db]
  IN  VoucherRequest(r,
        IF VoucherById(db, id) = {}
        THEN [base EXCEPT !.pc = "done", !.status = 404]
        ELSE IF VoucherStatus(db, id) # "draft"
        THEN [base EXCEPT !.pc = "done", !.status = 400]
        ELSE [base EXCEPT !.pc = "update"])

VoucherApproveRun(r) ==
  /\ req[r].op = "approveVoucher" /\ req[r].pc = "update"
  /\ db' = SetVoucherStatus(db, req[r].id, "approved")
  /\ Set(r, [req[r] EXCEPT !.pc = "fetch"])
  /\ UNCHANGED <<inTxn, snapshot, budget, lastPost, issued>>

VoucherApproveFetch(r) ==
  /\ req[r].op = "approveVoucher" /\ req[r].pc = "fetch"
  /\ Set(r, Respond(r, 200))
  /\ UNCHANGED <<db, inTxn, snapshot, budget, lastPost, issued>>

VoucherApprove(r) ==
  \/ \E id \in VoucherIds : VoucherApproveStart(r, id)
  \/ VoucherApproveRun(r)
  \/ VoucherApproveFetch(r)

VoucherPostStart(r, id) ==
  LET base == [Idle EXCEPT !.op = "postVoucher", !.id = id, !.pre = db]
  IN  VoucherRequest(r,
        IF VoucherById(db, id) = {}
        THEN [base EXCEPT !.pc = "done", !.status = 404]
        ELSE IF VoucherStatus(db, id) # "approved"
        THEN [base EXCEPT !.pc = "done", !.status = 400]
        ELSE [base EXCEPT !.pc = "update"])

VoucherPostRun(r) ==
  /\ req[r].op = "postVoucher" /\ req[r].pc = "update"
  /\ db' = SetVoucherStatus(db, req[r].id, "posted")
  /\ Set(r, [req[r] EXCEPT !.pc = "fetch"])
  /\ UNCHANGED <<inTxn, snapshot, budget, lastPost, issued>>

VoucherPostFetch(r) ==
  /\ req[r].op = "postVoucher" /\ req[r].pc = "fetch"
  /\ Set(r, Respond(r, 200))
  /\ UNCHANGED <<db, inTxn, snapshot, budget, lastPost, issued>>

VoucherPost(r) ==
  \/ \E id \in VoucherIds : VoucherPostStart(r, id)
  \/ VoucherPostRun(r)
  \/ VoucherPostFetch(r)

----------------------------------------------------------------------------
(* POST /api/inventory/movements *)

MovementStart(r, m) ==
  /\ CanStart(r)
  /\ budget' = budget - 1
  /\ lastPost' = NoPost
  /\ LET base == [Idle EXCEPT !.op = "movement", !.movement = m, !.pre = db]
     IN  IF ~ MovementSchemaValid(m)
         THEN Set(r, [base EXCEPT !.pc = "done", !.status = 400])
         ELSE IF m.item_id \notin DOMAIN db.inventory_items
         THEN Set(r, [base EXCEPT !.pc = "done", !.status = 404])
         ELSE LET current_stock == db.inventory_items[m.item_id].current_stock
                  stockChange == StockChange(m.movement_type, m.quantity,
                                             current_stock)
              IN  IF InsufficientStock(m.movement_type, current_stock, stockChange)
                  THEN Set(r, [base EXCEPT !.pc = "done", !.status = 400])
                  ELSE Set(r, [base EXCEPT !.pc = "begin",
                                           !.stockChange = stockChange])
  /\ UNCHANGED <<db, inTxn, snapshot, issued>>

MovementBegin(r) ==
  /\ req[r].op = "movement" /\ req[r].pc = "begin"
  /\ Begin(r, "insertMovement")
  /\ UNCHANGED <<budget, lastPost, issued>>

\* INSERT INTO stock_movements (item_id, movement_type, quantity, ...)
MovementInsert(r) ==
  /\ req[r].op = "movement" /\ req[r].pc = "insertMovement"
  /\ db' = [db EXCEPT !.stock_movements = Append(@, req[r].movement)]
  /\ Set(r, [req[r] EXCEPT !.pc = "updateStock",
                           !.lastID = Len(db.stock_movements) + 1])
  /\ UNCHANGED <<inTxn, snapshot, budget, lastPost, issued>>

\* UPDATE inventory_items SET current_stock = current_stock + ? WHERE id = ?
\* The movement row written without the stock being moved.
MovementUpdateStockSkipped(r) ==
  /\ req[r].op = "movement" /\ req[r].pc = "updateStock"
  /\ Set(r, [req[r] EXCEPT !.pc = "commit"])
  /\ UNCHANGED <<db, inTxn, snapshot, budget, lastPost, issued>>

MovementUpdateStock(r) ==
  /\ req[r].op = "movement" /\ req[r].pc = "updateStock"
  /\ db' = IF req[r].movement.item_id \in DOMAIN db.inventory_items
           THEN [db EXCEPT !.inventory_items[req[r].movement.item_id].current_stock
                             = @ + req[r].stockChange]
           ELSE db
  /\ Set(r, [req[r] EXCEPT !.pc = "commit"])
  /\ UNCHANGED <<inTxn, snapshot, budget, lastPost, issued>>

MovementCommit(r) ==
  /\ req[r].op = "movement" /\ req[r].pc = "commit"
  /\ Commit(r, "fetch")
  /\ UNCHANGED <<budget, lastPost, issued>>

\* SELECT sm.*, ... WHERE sm.id = ?; res.status(201).json(newMovement)
MovementFetch(r) ==
  /\ req[r].op = "movement" /\ req[r].pc = "fetch"
  /\ Set(r, Respond(r, 201))
  /\ UNCHANGED <<db, inTxn, snapshot, budget, lastPost, issued>>

MovementStatementFails(r) ==
  /\ req[r].op = "movement"
  /\ req[r].pc \in {"insertMovement", "updateStock", "commit"}
  /\ StatementFails(r)

RecordMovement(r, M) ==
  \/ \E m \in M : MovementStart(r, m)
  \/ MovementBegin(r)
  \/ MovementInsert(r)
  \/ MovementUpdateStock(r)
  \/ MovementCommit(r)
  \/ MovementFetch(r)
  \/ MovementStatementFails(r)
  \/ Rollback(r)
  \/ Finish(r)

----------------------------------------------------------------------------
(* DataMigration.importFromAccessExport, as POST /api/migration/import-csv calls it *)

ImportedLine(code, d, c) ==
  [AccountCode |-> code, DebitAmount |-> d, CreditAmount |-> c]

ImportedTransaction(n, date, amount, entries) ==
  [TransactionNumber |-> [prefix |-> "IMP", digits |-> ToDigits(n)],
   Date |-> date, Amount |-> amount, Entries |-> entries]

\* AccountType is carried as the lower-cased words of the exported text.
ImportedAccount(code, words, balance) ==
  [AccountCode |-> code, AccountType |-> words, Balance |-> balance]

\* The exported tables an import is given; one table per call, as the route
\* passes it.  Codes "1110" and "5230" are in the chart, "9999" is not.
ImportTables ==
  { [tableName |-> "transactions", data |->
       << ImportedTransaction(1, 1, 50000,
            << ImportedLine("1110", 50000, 0), ImportedLine("5230", 0, 50000) >>) >>],
    [tableName |-> "transactions", data |->
       << ImportedTransaction(2, 1, 50000,
            << ImportedLine("1110", 50000, 0), ImportedLine("5230", 0, 49900) >>) >>],
    [tableName |-> "transactions", data |->
       << ImportedTransaction(3, 2, 50000,
            << ImportedLine("1110", 50000, 0) >>) >>],
    [tableName |-> "transactions", data |->
       << ImportedTransaction(4, 2, 50000,
            << ImportedLine("9999", 50000, 0), ImportedLine("5230", 0, 50000) >>) >>],
    [tableName |-> "transactions", data |->
       << ImportedTransaction(1, 1, 50000,
            << ImportedLine("1110", 50000, 0), ImportedLine("5230", 0, 50000) >>),
          ImportedTransaction(5, 1, 0, <<>>) >>],
    [tableName |-> "accounts", data |->
       << ImportedAccount("1110", <<"asset">>, 0),
          ImportedAccount("2110", <<"current", "liability">>, 10000) >>],
    [tableName |-> "budgets", data |-> <<>>] }

\* The bodies used by the specification of all mutating handlers.
MutatingEntryLists == { << Line(1, 50000, 0), Line(2, 0, 50000) >> }

MutatingMovements == { Movement(1, "out", 4), Movement(1, "out", 20) }

\* The tables used when handlers interleave.
ConcurrentImportTables ==
  { [tableName |-> "transactions", data |->
       << ImportedTransaction(1, 1, 50000,
            << ImportedLine("1110", 50000, 0), ImportedLine("5230", 0, 50000) >>) >>],
    [tableName |-> "accounts", data |->
       << ImportedAccount("2110", <<"current", "liability">>, 0) >>] }

Includes(words, w) == \E k \in 1..Len(words) : words[k] = w

\* mapAccountType
mapAccountType(accessType) ==
  IF accessType = <<>> THEN "asset"
  ELSE IF Includes(accessType, "asset") THEN "asset"
  ELSE IF Includes(accessType, "liability") THEN "liability"
  ELSE IF Includes(accessType, "equity") \/ Includes(accessType, "capital")
  THEN "equity"
  ELSE IF Includes(accessType, "income") \/ Includes(accessType, "revenue")
  THEN "income"
  ELSE IF Includes(accessType, "expense") \/ Includes(accessType, "cost")
  THEN "expense"
  ELSE "asset"

\* SELECT id FROM accounts WHERE code = ?
AccountByCode(d, code) ==
  {a \in DOMAIN d.accounts : d.accounts[a].code = code}

\* migrateTable: the switch on table.tableName
migrateTable(table) ==
  IF table.data = <<>> THEN "commit"
  ELSE IF table.tableName \in {"accounts", "chart_of_accounts"}
  THEN "accountLookup"
  ELSE IF table.tableName \in {"transactions", "journal_entries"}
  THEN "importHeader"
  ELSE "commit"

\* for (const row of table.data): the step after row req[r].row is done
NextRow(r, pc) ==
  IF req[r].row < Len(req[r].table.data)
  THEN [req[r] EXCEPT !.row = @ + 1, !.i = 0, !.pc = pc]
  ELSE [req[r] EXCEPT !.pc = "commit"]

\* for (const entry of transaction.Entries): the step after entry i is done
NextImportedEntry(r) ==
  IF req[r].i < Len(req[r].table.data[req[r].row].Entries)
  THEN [req[r] EXCEPT !.i = @ + 1, !.pc = "entryLookup"]
  ELSE NextRow(r, "importHeader")

ImportStart(r, table) ==
  /\ CanStart(r)
  /\ Set(r, [Idle EXCEPT !.op = "import", !.pc = "begin", !.table = table,
                         !.pre = db])
  /\ budget' = budget - 1
  /\ UNCHANGED <<db, inTxn, snapshot, lastPost, issued>>

\* await this.db.run('BEGIN TRANSACTION'), inside the try
ImportBegin(r) ==
  /\ req[r].op = "import" /\ req[r].pc = "begin"
  /\ IF inTxn
     THEN /\ Set(r, [req[r] EXCEPT !.pc = "rollback"])
          /\ UNCHANGED <<inTxn, snapshot>>
     ELSE /\ inTxn' = TRUE
          /\ snapshot' = db
          /\ Set(r, [req[r] EXCEPT !.pc = migrateTable(req[r].table), !.row = 1])
  /\ UNCHANGED <<db, budget, lastPost, issued>>

\* migrateAccounts: const existing = SELECT id FROM accounts WHERE code = ?
ImportAccountLookup(r) ==
  /\ req[r].op = "import" /\ req[r].pc = "accountLookup"
  /\ Set(r, IF AccountByCode(db, req[r].table.data[req[r].row].AccountCode) = {}
            THEN [req[r] EXCEPT !.pc = "accountInsert"]
            ELSE NextRow(r, "accountLookup"))
  /\ UNCHANGED <<db, inTxn, snapshot, budget, lastPost, issued>>

\* migrateAccounts: INSERT INTO accounts (code, name, type, parent_id, balance);
\* a refused INSERT is caught and logged inside the loop.
ImportAccountInsert(r) ==
  /\ req[r].op = "import" /\ req[r].pc = "accountInsert"
  /\ LET account == req[r].table.data[req[r].row]
     IN  IF AccountByCode(db, account.AccountCode) = {}
         THEN db' = [db EXCEPT !.accounts =
                       Append(@, [code |-> account.AccountCode,
                                  type |-> mapAccountType(account.AccountType),
                                  balance |-> account.Balance,
                                  is_active |-> TRUE])]
         ELSE UNCHANGED db
  /\ Set(r, NextRow(r, "accountLookup"))
  /\ UNCHANGED <<inTxn, snapshot, budget, lastPost, issued>>

\* migrateTransactions: INSERT INTO transactions (...); a refused INSERT
\* (transaction_number is UNIQUE) is caught and logged inside the loop.
ImportInsertHeader(r) ==
  /\ req[r].op = "import" /\ req[r].pc = "importHeader"
  /\ LET transaction == req[r].table.data[req[r].row]
     IN  IF TransactionNumberUnique(db, transaction.TransactionNumber)
         THEN /\ db' = InsertTransaction(db, transaction.TransactionNumber,
                                         transaction.Date, transaction.Amount)
              /\ Set(r, [NextImportedEntry(r) EXCEPT !.lastID = db.seq + 1])
         ELSE /\ Set(r, NextRow(r, "importHeader"))
              /\ UNCHANGED db
  /\ UNCHANGED <<inTxn, snapshot, budget, lastPost, issued>>

\* migrateTransactionEntry: const account = SELECT id FROM accounts WHERE code = ?
ImportEntryLookup(r) ==
  /\ req[r].op = "import" /\ req[r].pc = "entryLookup"
  /\ LET entry == req[r].table.data[req[r].row].Entries[req[r].i]
         account == AccountByCode(db, entry.AccountCode)
     IN  Set(r, IF account = {}
                THEN NextImportedEntry(r)
                ELSE [req[r] EXCEPT !.pc = "entryInsert",
                                    !.id = CHOOSE a \in account : TRUE])
  /\ UNCHANGED <<db, inTxn, snapshot, budget, lastPost, issued>>

\* migrateTransactionEntry: INSERT INTO transaction_entries (...)
ImportEntryInsert(r) ==
  /\ req[r].op = "import" /\ req[r].pc = "entryInsert"
  /\ LET entry == req[r].table.data[req[r].row].Entries[req[r].i]
     IN  db' = InsertEntry(db, req[r].lastID,
                           Line(req[r].id, entry.DebitAmount, entry.CreditAmount))
  /\ Set(r, NextImportedEntry(r))
  /\ UNCHANGED <<inTxn, snapshot, budget, lastPost, issued>>

\* await this.db.run('COMMIT'); res.json({message: 'Data imported successfully'})
ImportCommit(r) ==
  /\ req[r].op = "import" /\ req[r].pc = "commit"
  /\ IF inTxn
     THEN /\ inTxn' = FALSE
          /\ Set(r, Respond(r, 200))
     ELSE /\ Set(r, [req[r] EXCEPT !.pc = "rollback"])
          /\ UNCHANGED inTxn
  /\ UNCHANGED <<db, snapshot, budget, lastPost, issued>>

\* BEGIN or COMMIT refused by the store: the catch of importFromAccessExport
ImportStatementFails(r) ==
  /\ req[r].op = "import"
  /\ req[r].pc \in {"begin", "commit"}
  /\ StatementFails(r)

Import(r, Tables) ==
  \/ \E table \in Tables : ImportStart(r, table)
  \/ ImportBegin(r)
  \/ ImportAccountLookup(r)
  \/ ImportAccountInsert(r)
  \/ ImportInsertHeader(r)
  \/ ImportEntryLookup(r)
  \/ ImportEntryInsert(r)
  \/ ImportCommit(r)
  \/ ImportStatementFails(r)
  \/ Rollback(r)
  \/ Finish(r)

----------------------------------------------------------------------------
(* GET /api/reports/trial-balance and GET /api/accounts *)

\* Slot q is between the BEGIN TRANSACTION and the COMMIT of its atomic unit.
InUnit(q) ==
  \/ req[q].op = "post"
       /\ req[q].pc \in {"insertHeader", "insertEntry", "updateBalance", "commit"}
  \/ req[q].op = "amend"
       /\ req[q].pc \in {"readOld", "reverse", "deleteOld", "updateHeader",
                         "insertEntry", "updateBalance", "commit"}
  \/ req[q].op = "void"
       /\ req[q].pc \in {"readOld", "reverse", "deleteOld", "deleteHeader",
                         "commit"}

\* The handler whose atomic unit is open on the connection while r reads.
Writer(r) ==
  IF inTxn /\ \E q \in Slots \ {r} : InUnit(q)
  THEN req[CHOOSE q \in Slots \ {r} : InUnit(q)].op
  ELSE "none"

\* A handler whose only statement is a SELECT on the shared connection: the
\* query runs against the tables as they are now, uncommitted rows included.
Read(r, op) ==
  /\ CanStart(r)
  /\ budget' = budget - 1
  /\ lastPost' = NoPost
  /\ Set(r, [Idle EXCEPT !.op = op, !.pc = "done", !.status = 200,
                         !.pre = IF inTxn THEN snapshot ELSE db,
                         !.seen = db, !.writer = Writer(r)])
  /\ UNCHANGED <<db, inTxn, snapshot, issued>>

\* const trialBalance = await db.all(`SELECT ... FROM accounts a LEFT JOIN
\* transaction_entries te ... LEFT JOIN transactions t ...`)
TrialBalanceRead(r) == Read(r, "trialBalance")

\* const accounts = await db.all(`SELECT a.*, ... WHERE a.is_active = 1`)
AccountsRead(r) == Read(r, "accounts")

Reads(r) == TrialBalanceRead(r) \/ AccountsRead(r)

----------------------------------------------------------------------------
(* Specifications *)

Posting(r, D, L) ==
  Post(r, D, L) \/ Amend(r, D, L) \/ Void(r) \/ Rollback(r) \/ Finish(r)

Registry(r) == AccountCreate(r) \/ AccountUpdate(r) \/ Deactivate(r)

\* Posting-engine requests, handled one at a time.
NextPosting == \E r \in {1} : Posting(r, Dates, EntryLists)

SpecPosting == Init /\ [][NextPosting]_vars

\* Registry and posting-engine requests, handled one at a time.
Next == \E r \in {1} : Posting(r, Dates, EntryLists) \/ Registry(r)

Spec == Init /\ [][Next]_vars

\* The ledger after one post of 500.00 from account 2 to account 1, dated 1.
PostedDb ==
  LET body   == << Line(1, 50000, 0), Line(2, 0, 50000) >>
      header == InsertTransaction(InitDb, FormatTransactionNumber(NextNumber(InitDb)),
                                  1, SumDebits(body))
      first  == UpdateBalance(InsertEntry(header, 1, body[1]), 1, 50000)
  IN  UpdateBalance(InsertEntry(first, 1, body[2]), 2, -50000)

\* Posting-engine requests whose handlers interleave on the shared connection,
\* on an empty ledger or on one that already holds a transaction.
InitConcurrent ==
  /\ db \in {InitDb, PostedDb}
  /\ inTxn = FALSE
  /\ snapshot = db
  /\ req = [r \in Slots |-> Idle]
  /\ budget = MaxConcurrentRequests
  /\ lastPost = NoPost
  /\ issued = NoneIssued

NextConcurrent ==
  \E r \in Slots : Posting(r, ConcurrentDates, ConcurrentEntryLists)

SpecConcurrent == InitConcurrent /\ [][NextConcurrent]_vars

Vouchers(r, B) ==
  \/ VoucherCreate(r, B)
  \/ VoucherUpdate(r, B)
  \/ VoucherDelete(r)
  \/ VoucherApprove(r)
  \/ VoucherPost(r)
  \/ Finish(r)

\* Voucher requests, handled one at a time.
NextVouchers == \E r \in {1} : Vouchers(r, VoucherBodies)

SpecVouchers == Init /\ [][NextVouchers]_vars

\* The tables holding one payment voucher that has been approved.
ApprovedVoucherDb ==
  [InitDb EXCEPT !.vseq = 1,
                 !.vouchers = {[id |-> 1,
                                voucher_number |-> FormatVoucherNumber("PV", 1),
                                type |-> "payment", amount |-> 100,
                                status |-> "approved"]}]

\* Voucher requests whose handlers interleave on the shared connection.
InitVouchersConcurrent ==
  /\ db \in {InitDb, ApprovedVoucherDb}
  /\ inTxn = FALSE
  /\ snapshot = db
  /\ req = [r \in Slots |-> Idle]
  /\ budget = MaxConcurrentRequests
  /\ lastPost = NoPost
  /\ issued = IF db = InitDb THEN NoneIssued
              ELSE [NoneIssued EXCEPT !["PV"] = 1]

NextVouchersConcurrent ==
  \E r \in Slots : Vouchers(r, ConcurrentVoucherBodies)

SpecVouchersConcurrent == InitVouchersConcurrent /\ [][NextVouchersConcurrent]_vars

\* The tables after one item was created and 10 units of it were received.
StockedDb ==
  [InitDb EXCEPT !.inventory_items = << [current_stock |-> 10] >>,
                 !.stock_movements = << Movement(1, "in", 10) >>]

InitInventory ==
  /\ db = StockedDb
  /\ inTxn = FALSE
  /\ snapshot = db
  /\ req = [r \in Slots |-> Idle]
  /\ budget = MaxRequests
  /\ lastPost = NoPost
  /\ issued = NoneIssued

\* Stock movement requests, handled one at a time.
NextInventory == \E r \in {1} : RecordMovement(r, Movements)

SpecInventory == InitInventory /\ [][NextInventory]_vars

InitInventoryConcurrent ==
  /\ db = StockedDb
  /\ inTxn = FALSE
  /\ snapshot = db
  /\ req = [r \in Slots |-> Idle]
  /\ budget = MaxConcurrentRequests
  /\ lastPost = NoPost
  /\ issued = NoneIssued

\* Stock movement requests whose handlers interleave on the shared connection.
NextInventoryConcurrent == \E r \in Slots : RecordMovement(r, ConcurrentMovements)

SpecInventoryConcurrent == InitInventoryConcurrent /\ [][NextInventoryConcurrent]_vars

\* Imports, handled one at a time.
NextImport == \E r \in {1} : Import(r, ImportTables)

SpecImport == Init /\ [][NextImport]_vars

\* Posts, account creations and imports whose handlers interleave on the
\* shared connection.
NextShared ==
  \E r \in Slots :
    \/ Post(r, ConcurrentDates, ConcurrentEntryLists)
    \/ AccountCreate(r)
    \/ Import(r, ConcurrentImportTables)

InitShared ==
  /\ db = InitDb
  /\ inTxn = FALSE
  /\ snapshot = db
  /\ req = [r \in Slots |-> Idle]
  /\ budget = MaxConcurrentRequests
  /\ lastPost = NoPost
  /\ issued = NoneIssued

SpecShared == InitShared /\ [][NextShared]_vars

\* The steps of the mutating handlers: post, amend, void, stock movement, import.
Mutating(r) ==
  \/ Posting(r, ConcurrentDates, MutatingEntryLists)
  \/ RecordMovement(r, MutatingMovements)
  \/ Import(r, ConcurrentImportTables)

\* The ledger after one post, with one item in stock.
InitMutating ==
  /\ db = [PostedDb EXCEPT !.inventory_items = StockedDb.inventory_items,
                           !.stock_movements = StockedDb.stock_movements]
  /\ inTxn = FALSE
  /\ snapshot = db
  /\ req = [r \in Slots |-> Idle]
  /\ budget = MaxConcurrentRequests
  /\ lastPost = NoPost
  /\ issued = NoneIssued

NextMutating == \E r \in Slots : Mutating(r)

\* The event loop runs every continuation of a handler that has started.
SpecMutating ==
  /\ InitMutating
  /\ [][NextMutating]_vars
  /\ \A r \in Slots : WF_vars(req[r].pc # "idle" /\ Mutating(r))

\* Posting-engine requests interleaved with report and account reads.
NextReaders ==
  \E r \in Slots :
    Posting(r, ConcurrentDates, ConcurrentEntryLists) \/ Reads(r)

SpecReaders == InitConcurrent /\ [][NextReaders]_vars

----------------------------------------------------------------------------
(* Properties *)

\* No handler is between two of its statements.
Quiescent == \A r \in Slots : req[r].pc \in {"idle", "done"}

RECURSIVE NetOf(_, _)
\* Sum of (debit_amount - credit_amount) over the rows of es on account a.
NetOf(es, a) ==
  IF es = <<>> THEN 0
  ELSE (IF Head(es).account_id = a
        THEN Head(es).debit_amount - Head(es).credit_amount ELSE 0)
       + NetOf(Tail(es), a)

Imbalance(es) ==
  LET diff == NetOf(es, 1) + NetOf(es, 2) + NetOf(es, 3)
  IN  IF diff < 0 THEN -diff ELSE diff

RECURSIVE AsLines(_)
\* The rows of a transaction as the lines of a request body.
AsLines(es) ==
  IF es = <<>> THEN <<>>
  ELSE <<Line(Head(es).account_id, Head(es).debit_amount, Head(es).credit_amount)>>
       \o AsLines(Tail(es))

Answered(r, op, status) ==
  req[r].op = op /\ req[r].pc = "done" /\ req[r].status = status

TXN000001 == [prefix |-> "TXN", digits |-> <<0, 0, 0, 0, 0, 1>>]

\* C1: once post, amend and void requests handled one at a time have all
\* returned, every account's stored balance equals the sum of
\* (debit_amount - credit_amount) over the entry rows that reference it.
C1_BalanceEqualsEntrySum ==
  Quiescent =>
    \A a \in DOMAIN db.accounts :
      db.accounts[a].balance = NetOf(db.transaction_entries, a)

\* A void has succeeded while another transaction still holds account 1 at a
\* non-zero balance.
C1_Witness ==
  /\ Answered(1, "void", 200)
  /\ db.transactions # {}
  /\ db.accounts[1].balance # 0

\* C2: post and amend answer 400 to every entry array whose debits and credits
\* differ by more than 0.01, they go on only with arrays within 0.01, and the
\* rows stored for each transaction are within 0.01.
C2_ToleranceEnforced ==
  /\ \A r \in Slots :
       req[r].op \in {"post", "amend"} =>
         /\ Imbalance(req[r].entries) > Tolerance =>
              req[r].pc = "done" /\ req[r].status = 400
         /\ req[r].status \in {200, 201} => Imbalance(req[r].entries) <= Tolerance
  /\ Quiescent =>
       \A t \in db.transactions : Imbalance(EntriesOf(db, t.id)) <= Tolerance

\* An amend off by 0.02 has been refused while a stored transaction is off by
\* exactly 0.01.
C2_Witness ==
  /\ Answered(1, "amend", 400)
  /\ Imbalance(req[1].entries) = Tolerance + 1
  /\ \E t \in db.transactions : Imbalance(EntriesOf(db, t.id)) = Tolerance

\* C3: whenever no request is in flight, the trial balance totals agree for
\* every as-of date: total_debits = total_credits.
C3_TrialBalanceBalanced ==
  Quiescent =>
    \A asOfDate \in Dates :
      TrialBalanceTotals(db, asOfDate).total_debits
        = TrialBalanceTotals(db, asOfDate).total_credits

\* C4: a void that directly follows the post of the same transaction returns
\* every balance to its value before the post and leaves neither the header
\* nor an entry row of that transaction.
C4_VoidUndoesPost ==
  \A r \in Slots :
    (Answered(r, "void", 200) /\ req[r].postBal # <<>>) =>
      /\ Balances(db) = req[r].postBal
      /\ \A t \in db.transactions : t.id # req[r].id
      /\ \A k \in 1..Len(db.transaction_entries) :
           db.transaction_entries[k].transaction_id # req[r].id

\* Such a void has succeeded on a ledger whose balances were not zero before
\* the post.
C4_Witness ==
  /\ Answered(1, "void", 200)
  /\ req[1].postBal # <<>>
  /\ req[1].postBal[1] # 0

\* The amend of slot r resubmits the date and the entries the transaction has.
SameData(r) ==
  \E t \in req[r].pre.transactions :
    /\ t.id = req[r].id
    /\ t.date = req[r].date
    /\ AsLines(EntriesOf(req[r].pre, t.id)) = req[r].entries

C6_FailedPostLeavesNoTrace ==
  \A r \in Slots :
    ( /\ Answered(r, "post", 500)
      /\ req[r].failed \in {"insertHeader", "insertEntry", "updateBalance"} ) =>
      (db = req[r].pre /\ ~ inTxn)

\* A post has answered 500 after its header and its first entry were written,
\* on a ledger that already held a transaction.
C6_Witness ==
  /\ Answered(1, "post", 500)
  /\ req[1].failed = "insertEntry"
  /\ req[1].lastID # 0
  /\ req[1].i >= 2
  /\ db.transactions # {}

\* The entries array breaks a rule of the schema.
FailsValidation(es) ==
  \/ Len(es) < 2
  \/ \E k \in 1..Len(es) : es[k].debit_amount < 0 \/ es[k].credit_amount < 0
  \/ Imbalance(es) > Tolerance

\* C7: a post whose entries fail validation is answered 400 at once, and the
\* tables are as they were: no header, no entry row, no balance change.
C7_InvalidPostRejected ==
  \A r \in Slots :
    (req[r].op = "post" /\ FailsValidation(req[r].entries)) =>
      /\ Answered(r, "post", 400)
      /\ db = req[r].pre

\* The post of 500.00 against 499.00 has been refused on a ledger that holds
\* a transaction.
C7_Witness ==
  /\ Answered(1, "post", 400)
  /\ SumDebits(req[1].entries) = 50000
  /\ SumCredits(req[1].entries) = 49900
  /\ db.transactions # {}

\* Account id names an active account of the tables d.
ResolvesToActive(d, id) ==
  id \in DOMAIN d.accounts /\ d.accounts[id].is_active

\* C8: post and amend answer 400 to every entry array naming an account that
\* is unknown or inactive, and leave the tables as they were.
C8_UnknownAccountRejected ==
  \A r \in Slots :
    ( /\ req[r].op \in {"post", "amend"}
      /\ \E k \in 1..Len(req[r].entries) :
           ~ ResolvesToActive(req[r].pre, req[r].entries[k].account_id) ) =>
      /\ req[r].pc = "done" /\ req[r].status = 400
      /\ db = req[r].pre

\* C9: a successful post moves each account's balance by the sum of
\* (debit_amount - credit_amount) of the posted lines that name it, and on a
\* ledger without transactions it is numbered TXN000001.
C9_PostAppliesDeltas ==
  \A r \in Slots :
    Answered(r, "post", 201) =>
      /\ \A a \in DOMAIN db.accounts :
           db.accounts[a].balance
             = req[r].pre.accounts[a].balance + NetOf(req[r].entries, a)
      /\ req[r].pre.transactions = {} =>
           \E t \in db.transactions :
             t.id = req[r].lastID /\ t.transaction_number = TXN000001

\* The post of 500.00 from account 2 to account 1 has succeeded on the empty
\* ledger.
C9_Witness ==
  /\ Answered(1, "post", 201)
  /\ req[1].pre = InitDb
  /\ db.accounts[1].balance = 50000
  /\ db.accounts[2].balance = -50000

\* C10: in every state, also between the statements of interleaved posts, no
\* two stored transactions carry the same transaction_number.
C10_NumbersUnique ==
  \A t, u \in db.transactions :
    t.transaction_number = u.transaction_number => t.id = u.id

\* A post is about to insert a header whose number another post, which read
\* the same last number, has already stored.
C10_Witness ==
  \E r \in Slots :
    /\ req[r].op = "post" /\ req[r].pc = "insertHeader"
    /\ \E t \in db.transactions :
         t.transaction_number = req[r].transactionNumber
    /\ \A t \in req[r].pre.transactions :
         t.transaction_number # req[r].transactionNumber

\* Post r has read the last number and has not yet inserted its header.
Allocating(r) ==
  req[r].op = "post" /\ req[r].pc \in {"begin", "insertHeader"}

\* C11: between a post's read of the last transaction number and its own
\* header insert no other request inserts a transaction, and two posts in
\* flight never hold the same computed number.
C11_AllocationAtomic ==
  \A r \in Slots :
    Allocating(r) =>
      /\ \A t \in db.transactions :
           \E u \in req[r].pre.transactions : u.id = t.id
      /\ \A q \in Slots \ {r} :
           (req[q].op = "post" /\ req[q].pc \notin {"idle", "done"}) =>
             req[q].transactionNumber # req[r].transactionNumber

\* Handler r answers with the given status in this step.
Answers(r, op, status) ==
  /\ req[r].op = op /\ req[r].pc # "done"
  /\ req'[r].pc = "done" /\ req'[r].status = status

\* C12: a post that succeeds carries a sequence number greater than that of
\* the post that succeeded before it, whatever was amended or voided between.
C12_NumbersIncrease ==
  [][\A r \in Slots :
       Answers(r, "post", 201) =>
         ParseInt(req[r].transactionNumber.digits) > issued["TXN"]]_vars

ReaderOps == {"trialBalance", "accounts"}

\* The tables a reader saw hold every transaction either not at all or whole:
\* they are the committed tables, or each transaction in them has a valid set
\* of entry rows and every balance has moved by what the entry rows moved.
Whole(seen, pre) ==
  \/ seen = pre
  \/ /\ \A a \in DOMAIN seen.accounts :
           seen.accounts[a].balance - NetOf(seen.transaction_entries, a)
             = pre.accounts[a].balance - NetOf(pre.transaction_entries, a)
     /\ \A t \in seen.transactions :
           ~ FailsValidation(AsLines(EntriesOf(seen, t.id)))

\* C13: a trial balance or account read that runs while a post is inside its
\* atomic unit sees none of that post's header, entry rows and balance
\* changes, or all of them.
C13_ReadSeesWholePost ==
  \A r \in Slots :
    (req[r].op \in ReaderOps /\ req[r].pc = "done" /\ req[r].writer = "post") =>
      Whole(req[r].seen, req[r].pre)

\* C14: a read that runs while an amend is inside its atomic unit sees the
\* balances with the old entries' effect and the old rows, or with the new
\* entries' effect and the new rows, never one without the other.
C14_ReadSeesWholeAmend ==
  \A r \in Slots :
    (req[r].op \in ReaderOps /\ req[r].pc = "done" /\ req[r].writer = "amend") =>
      Whole(req[r].seen, req[r].pre)

\* C15: in every step, a voucher that appears starts in draft and a stored
\* voucher keeps its status or moves draft -> approved or approved -> posted.
C15_StatusOnlyForward ==
  [][\A v \in db'.vouchers :
       IF VoucherById(db, v.id) = {}
       THEN v.status = "draft"
       ELSE \/ v.status = VoucherStatus(db, v.id)
            \/ VoucherStatus(db, v.id) = "draft" /\ v.status = "approved"
            \/ VoucherStatus(db, v.id) = "approved" /\ v.status = "posted"]_vars

\* The status check of approve / post: the handler answered 200 only if the
\* voucher was in status `from`, it then is in status `to`, and a voucher in
\* any other status got an error with the tables left as they were.
OnlyFrom(r, from, to) ==
  LET was == VoucherStatus(req[r].pre, req[r].id)
  IN  /\ req[r].status = 200 =>
           was = from /\ VoucherStatus(db, req[r].id) = to
      /\ was # from => req[r].status \in {400, 404} /\ db = req[r].pre

\* C16: approve succeeds only on a draft voucher and post only on an approved
\* one; an approve of a voucher that is already approved fails and leaves its
\* status unchanged.
C16_ApproveAndPostGuarded ==
  \A r \in Slots :
    /\ (req[r].op = "approveVoucher" /\ req[r].pc = "done") =>
         OnlyFrom(r, "draft", "approved")
    /\ (req[r].op = "postVoucher" /\ req[r].pc = "done") =>
         OnlyFrom(r, "approved", "posted")

\* The second approve of a voucher created in draft has been refused.
C16_Witness ==
  /\ Answered(1, "approveVoucher", 400)
  /\ \E v \in db.vouchers :
       /\ v.id = req[1].id
       /\ v.status = "approved" /\ v.type = "payment" /\ v.amount = 100

C18_VoucherNumbering ==
  [][\A r \in Slots :
       (req[r].op = "createVoucher" /\ req[r].pc # "done" /\ req'[r].pc = "done") =>
         /\ req'[r].status = 201
         /\ req[r].voucherNumber.prefix = VoucherPrefix(req[r].body.type)
         /\ ParseInt(req[r].voucherNumber.digits)
              = issued[VoucherPrefix(req[r].body.type)] + 1
         /\ Len(req[r].voucherNumber.digits) = PadWidth
         /\ \A v, u \in db'.vouchers :
              v.voucher_number = u.voucher_number => v.id = u.id]_vars

\* Code is held, in the tables d, by an account other than id.
HeldByOther(d, code, id) ==
  \E a \in DOMAIN d.accounts : d.accounts[a].code = code /\ a # id

\* C19: create answers 409 whenever an account, active or not, holds the
\* code; update answers 409 whenever a different account holds it; a create or
\* update that fails leaves the tables as they were; and no two accounts share
\* a code.
C19_CodesUnique ==
  /\ \A a, b \in DOMAIN db.accounts :
       db.accounts[a].code = db.accounts[b].code => a = b
  /\ \A r \in Slots :
       (req[r].pc = "done" /\ req[r].type \in AccountTypes) =>
         /\ (req[r].op = "createAccount" /\ HeldByOther(req[r].pre, req[r].code, 0))
              => req[r].status = 409
         /\ ( /\ req[r].op = "updateAccount"
              /\ req[r].id \in DOMAIN req[r].pre.accounts
              /\ HeldByOther(req[r].pre, req[r].code, req[r].id) )
              => req[r].status = 409
  /\ \A r \in Slots :
       ( /\ req[r].op \in {"createAccount", "updateAccount"}
         /\ req[r].pc = "done" /\ req[r].status \notin {200, 201} ) =>
         db = req[r].pre

\* An update of account 2 to the code of account 1 has been refused while
\* account 1 is inactive.
C19_Witness ==
  /\ Answered(1, "updateAccount", 409)
  /\ req[1].id = 2
  /\ db.accounts[1].code = req[1].code
  /\ ~ db.accounts[1].is_active

\* An entry row of the tables d names account id.
Referenced(d, id) ==
  \E k \in 1..Len(d.transaction_entries) : d.transaction_entries[k].account_id = id

\* C20: deactivate answers 404 for an unknown id, fails with the tables left
\* as they were when an entry row names the account, and otherwise only sets
\* the account inactive: no account row is removed.
C20_DeactivateGuarded ==
  \A r \in Slots :
    (req[r].op = "deactivate" /\ req[r].pc = "done") =>
      IF req[r].id \notin DOMAIN req[r].pre.accounts
      THEN req[r].status = 404 /\ db = req[r].pre
      ELSE IF Referenced(req[r].pre, req[r].id)
      THEN req[r].status = 400 /\ db = req[r].pre
      ELSE /\ req[r].status = 200
           /\ db = [req[r].pre EXCEPT !.accounts[req[r].id].is_active = FALSE]

\* A deactivate of account 1 has been refused because a posted entry names it,
\* and the account is still active.
C20_Witness ==
  /\ Answered(1, "deactivate", 400)
  /\ req[1].id = 1
  /\ Referenced(db, 1)
  /\ db.accounts[1].is_active

RegistryOps == {"createAccount", "updateAccount", "deactivate"}

C26_MissingTransactionNotFound ==
  \A r \in Slots :
    ( /\ req[r].op \in {"amend", "void"}
      /\ ~ \E t \in req[r].pre.transactions : t.id = req[r].id ) =>
      /\ req[r].pc = "done" /\ req[r].status = 404
      /\ db = req[r].pre

C30_NoEntryOnInactive ==
  \A k \in 1..Len(db.transaction_entries) :
    LET a == db.transaction_entries[k].account_id
    IN  a \in DOMAIN db.accounts => db.accounts[a].is_active

\* Stock of the item of r's movement in the tables d.
StockOf(d, r) == d.inventory_items[req[r].movement.item_id].current_stock

\* C22: an out movement of quantity q on an existing item answers 400 with
\* nothing recorded when q exceeds the stock, and otherwise (unless the store
\* refuses a statement) answers 201 with one movement row added and the stock
\* lowered by exactly q.
C22_OutChecksStock ==
  \A r \in Slots :
    ( /\ req[r].op = "movement" /\ req[r].pc = "done"
      /\ req[r].movement.movement_type = "out"
      /\ req[r].movement.item_id \in DOMAIN req[r].pre.inventory_items ) =>
      IF req[r].movement.quantity > StockOf(req[r].pre, r)
      THEN req[r].status = 400 /\ db = req[r].pre
      ELSE /\ req[r].failed = "" => req[r].status = 201
           /\ req[r].status = 201 =>
                /\ StockOf(db, r) = StockOf(req[r].pre, r) - req[r].movement.quantity
                /\ db.stock_movements
                     = Append(req[r].pre.stock_movements, req[r].movement)

\* An out of 10 has been refused after an earlier out left less than 10.
C22_Witness ==
  /\ Answered(1, "movement", 400)
  /\ req[1].movement = Movement(1, "out", 10)
  /\ StockOf(db, 1) = 6

\* C23: after a successful adjustment of quantity q the item's stock is q.
C23_AdjustmentSetsLevel ==
  \A r \in Slots :
    ( /\ Answered(r, "movement", 201)
      /\ req[r].movement.movement_type = "adjustment" ) =>
      StockOf(db, r) = req[r].movement.quantity

\* An adjustment to 7 has succeeded on an item whose stock was 15.
C23_Witness ==
  /\ Answered(1, "movement", 201)
  /\ req[1].movement = Movement(1, "adjustment", 7)
  /\ StockOf(req[1].pre, 1) = 15
  /\ StockOf(db, 1) = 7

\* The orders in which the movements recorded after the first n rows of log
\* can be taken one at a time.
SerialOrders(log, n) ==
  {f \in [1..Len(log) -> 1..Len(log)] :
     /\ \A i, j \in 1..Len(log) : f[i] = f[j] => i = j
     /\ \A i \in 1..n : f[i] = i}

RECURSIVE Replay(_, _, _)
\* Stock after the movements log[f[1]], ..., log[f[k]] taken one at a time from
\* an empty shelf; ok is FALSE when one of them would have been refused.
Replay(log, f, k) ==
  IF k = 0 THEN [ok |-> TRUE, stock |-> 0]
  ELSE LET before == Replay(log, f, k - 1)
           m == log[f[k]]
       IN  IF m.movement_type = "in"
           THEN [before EXCEPT !.stock = @ + m.quantity]
           ELSE IF m.movement_type = "out"
           THEN [ok |-> before.ok /\ m.quantity <= before.stock,
                 stock |-> before.stock - m.quantity]
           ELSE [before EXCEPT !.stock = m.quantity]

\* C24: once the movement requests have returned, the item's stock is what
\* the recorded movements give when taken one at a time in some order, none of
\* them being an out that exceeds the stock at its turn.
C24_MovementsSerializable ==
  (Quiescent /\ ~ inTxn) =>
    \E f \in SerialOrders(db.stock_movements, Len(StockedDb.stock_movements)) :
      LET end == Replay(db.stock_movements, f, Len(db.stock_movements))
      IN  end.ok /\ end.stock = db.inventory_items[1].current_stock

\* C25: whenever no request is in flight, the balance sheet's totals.assets
\* equals totals.liabilities_and_equity for every as-of date.
C25_BalanceSheetReconciles ==
  Quiescent =>
    \A asOfDate \in Dates :
      BalanceSheetTotals(db, asOfDate).assets
        = BalanceSheetTotals(db, asOfDate).liabilities_and_equity

\* The lines of an imported transaction as the posting engine would see them;
\* an account code that is not in the chart becomes account 0.
ImportedAsLines(d, transaction) ==
  [k \in 1..Len(transaction.Entries) |->
     LET entry == transaction.Entries[k]
         account == AccountByCode(d, entry.AccountCode)
     IN  Line(IF account = {} THEN 0 ELSE CHOOSE a \in account : TRUE,
              entry.DebitAmount, entry.CreditAmount)]

\* The checks a hand-entered transaction passes: two entries or more, every
\* account known, debits and credits equal within the tolerance.
ImportedChecksPass(d, transaction) ==
  LET lines == ImportedAsLines(d, transaction)
  IN  /\ Len(lines) >= 2
      /\ \A k \in 1..Len(lines) : lines[k].account_id # 0
      /\ Abs(SumDebits(lines) - SumCredits(lines)) <= Tolerance

\* C27: once an import has answered, no transaction of the imported table that
\* fails the checks of a hand-entered one has been stored, and every account's
\* stored balance equals the sum of (debit - credit) over its entry rows.
C27_ImportChecked ==
  \A r \in Slots :
    (req[r].op = "import" /\ req[r].pc = "done" /\ req[r].status = 200) =>
      /\ req[r].table.tableName = "transactions" =>
           \A k \in 1..Len(req[r].table.data) :
             ~ ImportedChecksPass(req[r].pre, req[r].table.data[k]) =>
               \A t \in db.transactions :
                 t.transaction_number = req[r].table.data[k].TransactionNumber
                   => t \in req[r].pre.transactions
      /\ \A a \in DOMAIN db.accounts :
           db.accounts[a].balance = NetOf(db.transaction_entries, a)

RECURSIVE FoldMovements(_, _, _)
\* The level the first k rows of log give an item that starts empty: in adds
\* the quantity, out subtracts it, adjustment sets the level to it.
FoldMovements(log, item, k) ==
  IF k = 0 THEN 0
  ELSE LET before == FoldMovements(log, item, k - 1)
           m == log[k]
       IN  IF m.item_id # item THEN before
           ELSE IF m.movement_type = "in" THEN before + m.quantity
           ELSE IF m.movement_type = "out" THEN before - m.quantity
           ELSE IF m.movement_type = "adjustment" THEN m.quantity
           ELSE before

\* C31: whenever no movement request is in flight, every item's current_stock
\* equals the fold of its movement rows in insertion order.
C31_StockIsFoldOfLog ==
  Quiescent =>
    \A item \in DOMAIN db.inventory_items :
      db.inventory_items[item].current_stock
        = FoldMovements(db.stock_movements, item, Len(db.stock_movements))

\* An adjustment to 7 and then an out of 4 were recorded after the receipt of 10.
C31_Witness ==
  /\ Quiescent
  /\ db.stock_movements
       = << Movement(1, "in", 10), Movement(1, "adjustment", 7),
            Movement(1, "out", 4) >>
  /\ db.inventory_items[1].current_stock = 3

\* C37: whenever no movement request is in flight, no item's current_stock is
\* negative.
C37_StockNeverNegative ==
  Quiescent =>
    \A item \in DOMAIN db.inventory_items :
      db.inventory_items[item].current_stock >= 0

RECURSIVE NetIncomeOfEntries(_, _, _, _)
\* Sum of (credit_amount - debit_amount) over the rows of s that are on an
\* active income or expense account and whose transaction is dated in the range.
NetIncomeOfEntries(d, s, fromDate, toDate) ==
  IF s = <<>> THEN 0
  ELSE LET e == Head(s)
           counts ==
             /\ e.account_id \in DOMAIN d.accounts
             /\ d.accounts[e.account_id].is_active
             /\ d.accounts[e.account_id].type \in {"income", "expense"}
             /\ \E t \in d.transactions :
                  t.id = e.transaction_id /\ t.date >= fromDate /\ t.date <= toDate
       IN  (IF counts THEN e.credit_amount - e.debit_amount ELSE 0)
             + NetIncomeOfEntries(d, Tail(s), fromDate, toDate)

\* C38: whenever no request is in flight, for every range of dates the
\* profit-and-loss net_income equals the sum of (credit - debit) over the
\* entries on active income and expense accounts dated in the range.
C38_NetIncomeIsEntrySum ==
  Quiescent =>
    \A fromDate \in Dates, toDate \in Dates :
      ProfitLossNetIncome(db, fromDate, toDate)
        = NetIncomeOfEntries(db, db.transaction_entries, fromDate, toDate)

\* C32: whenever no request is in flight, the debit and credit amounts of
\* the whole entry log differ by at most 0.01.
C32_ImbalanceDoesNotAccumulate ==
  Quiescent => Imbalance(db.transaction_entries) <= Tolerance

InOwnUnit(q) ==
  \/ InUnit(q)
  \/ req[q].op = "import"
       /\ req[q].pc \in {"accountLookup", "accountInsert", "importHeader",
                         "entryLookup", "entryInsert", "commit"}

\* C34: a step of one request that closes the connection's transaction (a
\* COMMIT or a ROLLBACK) is never taken while another request is inside the
\* unit it began, and never removes the account or the transaction that
\* another request has already answered 201 for.
C34_NoForeignCommitOrRollback ==
  [][ \A r \in Slots :
        (req'[r] # req[r] /\ inTxn /\ ~ inTxn') =>
          \A q \in Slots \ {r} :
            /\ ~ InOwnUnit(q)
            /\ Answered(q, "createAccount", 201) =>
                 req[q].lastID \in DOMAIN db'.accounts
            /\ Answered(q, "post", 201) =>
                 TransactionExists(db', req[q].lastID) ]_vars

\* C35: a post with a valid body, none of whose statements the store
\* refused, answers 201 whatever other requests are in flight.
C35_ValidPostCommits ==
  \A r \in Slots :
    ( /\ req[r].op = "post" /\ req[r].pc = "done"
      /\ TransactionSchemaValid(req[r].entries)
      /\ req[r].failed = "" ) =>
      req[r].status = 201

\* C36: every mutating request that has started is answered, and whenever no
\* request is in flight the connection has no open transaction.
C36_TerminatesAndReleases ==
  /\ [](Quiescent => ~ inTxn)
  /\ \A r \in Slots : (req[r].pc # "idle") ~> (req[r].pc = "done")

\* A post refused at BEGIN and an import have both been answered and the
\* connection holds no transaction.
C36_Witness ==
  /\ \E r, q \in Slots : Answered(r, "post", 500) /\ Answered(q, "import", 200)
  /\ ~ inTxn

====
